---- MODULE Spec2Model ----
(***************************************************************************)
(* A model of the C# analyzer provider: the evaluate RPC's result          *)
(* deduplication and ordering (provider/csharp.rs), FQDN reconstruction    *)
(* (c_sharp_graph/query.rs) and the dependency-XML indexer                 *)
(* (c_sharp_graph/dependency_xml_analyzer.rs).                             *)
(*                                                                         *)
(* The components share no state, so each is checked under its own         *)
(* specification over the one tuple of variables:                          *)
(*   SpecEvaluate  the evaluate handler on one request                     *)
(*   SpecMember    the indexer on a file holding a single member entry     *)
(*   SpecXml       the indexer on a file holding several member entries    *)
(*   SpecCancel    the indexer called with a cancellation flag             *)
(*   SpecSearch    the pattern matcher of a query on one symbol            *)
(*   SpecField     the field matcher on one symbol                         *)
(*   SpecNamespace the construction of the namespace matcher on a graph    *)
(*   SpecLocks     evaluate calls running concurrently, lock by lock       *)
(*   SpecSnip      get_code_snip on one file and one code location         *)
(*   SpecQuery     the loop of a query over the files it refers to         *)
(*   SpecAccess    the member-access lookup over several definitions       *)
(*   SpecWalk      the forward walks of the search and of the matchers     *)
(*   SpecWalkFair  the same walks, each of which keeps taking its steps    *)
(*   SpecOrder     the namespace matcher on reordered edges                *)
(*   SpecSpine     get_fqdn on a spine of FQDN edges                       *)
(*   SpecProvider  one init call and the evaluate calls beside it          *)
(*                                                                         *)
(* Strings are sequences of one-character strings; Option<T> is a sequence *)
(* of length zero (None) or one (Some).                                    *)
(***************************************************************************)
EXTENDS Integers, Sequences, FiniteSets, TLC

VARIABLES
    \* ---- evaluate (provider/csharp.rs)
    project,            \* CSharpProvider.project slot: None or Some(project)
    request,            \* the EvaluateRequest being served
    query_result,       \* what query.query(pattern) returns in this call
    best_by_location,   \* the BTreeMap built by the deduplication loop
    response,           \* what evaluate returned (None while pending)
    \* ---- dependency-XML indexer (dependency_xml_analyzer.rs)
    source,             \* the XML source handed to build_stack_graph_into
    inter_node_info,    \* Vec<NodeInfo> collected by the read loop
    inter_edge_info,    \* Vec<EdgeInfo> collected by the read loop
    stack_graph,        \* the StackGraph being built
    build_result,       \* what build_stack_graph_into returned
    cancellation_flag,  \* whether the call's CancellationFlag is cancelled
    \* ---- calls of the matchers and of the other functions checked alone
    call,               \* the pending call: its receiver and arguments
    returned,           \* what the call returned (None while pending)
    \* ---- concurrent evaluate calls (provider/csharp.rs)
    pc,                 \* where each evaluate call stands
    project_lock,       \* the call holding the guard of self.project, if any
    graph_lock,         \* the call holding the guard of project.graph, if any
    \* ---- the graph slot of the project (provider/dependency_resolution.rs)
    graph_slot,         \* project.graph: None or Some(graph)
    graph_poisoned,     \* whether the mutex of project.graph is poisoned
    \* ---- traversals of the graph (c_sharp_graph/*.rs)
    walk                \* the traversal under way: pending calls and findings

evalVars == <<project, request, query_result, best_by_location, response>>
xmlVars == <<source, inter_node_info, inter_edge_info, stack_graph, build_result,
             cancellation_flag>>
callVars == <<call, returned>>
lockVars == <<pc, project_lock, graph_lock>>
slotVars == <<graph_slot, graph_poisoned>>
walkVars == <<walk>>
vars == <<project, request, query_result, best_by_location, response,
          source, inter_node_info, inter_edge_info, stack_graph, build_result,
          cancellation_flag, call, returned, pc, project_lock, graph_lock,
          graph_slot, graph_poisoned, walk>>

\* ------------------------------------------------------------------------
\* Options and strings
\* ------------------------------------------------------------------------
None == <<>>
Some(x) == <<x>>
IsSome(o) == Len(o) = 1
Unwrap(o) == o[1]

\* The characters the model uses, in ascending byte order.
ByteOrder ==
    <<"#", "(", ")", "-", ".", "0", "1", "2", "3", "4", "5", "6", "7", "8", "9",
      ":", "A", "B", "X", "Y", "a", "b", "c", "d", "f", "m", "o", "r", "t">>

Code(c) == CHOOSE i \in 1..Len(ByteOrder) : ByteOrder[i] = c

\* str::cmp: byte-wise lexicographic order.
RECURSIVE StrLess(_, _)
StrLess(a, b) ==
    IF b = <<>> THEN FALSE
    ELSE IF a = <<>> THEN TRUE
    ELSE IF Code(Head(a)) < Code(Head(b)) THEN TRUE
    ELSE IF Code(Head(a)) > Code(Head(b)) THEN FALSE
    ELSE StrLess(Tail(a), Tail(b))

Digits == <<"0", "1", "2", "3", "4", "5", "6", "7", "8", "9">>

\* format!("{:?}", n) of a non-negative integer: its decimal digits.
RECURSIVE Decimal(_)
Decimal(n) ==
    IF n < 10 THEN <<Digits[n + 1]>>
    ELSE Decimal(n \div 10) \o <<Digits[(n % 10) + 1]>>

\* ------------------------------------------------------------------------
\* evaluate: provider/csharp.rs
\* ------------------------------------------------------------------------
MaxHits == 3         \* raw hits in one query result

FileUris == { <<"a">>, <<"b">> }
SpanLines == {0, 1}      \* end.line - start.line of a hit
Characters == {0, 1}     \* columns of a hit

\* Line numbers of one and of two digits.
LineNumbers == {2, 10}

\* A ResultNode as traverse_node_search pushes it: line_number is the span's
\* start line, variables is the single entry "file" -> file_uri, and the span
\* is not degenerate.
ResultNode(f, l, span, sc, ec) ==
    [ file_uri |-> f,
      line_number |-> l,
      variables |-> [file |-> f],
      code_location |->
        [ start_position |-> [line |-> l, character |-> sc],
          end_position |-> [line |-> l + span, character |-> ec] ] ]

ResultNodes ==
    { ResultNode(f, l, span, sc, ec) :
        f \in FileUris, l \in LineNumbers,
        span \in SpanLines, sc \in Characters, ec \in Characters }

EmittedNodes ==
    { r \in ResultNodes :
        /\ r.code_location.start_position # r.code_location.end_position
        /\ \/ r.code_location.start_position.line < r.code_location.end_position.line
           \/ r.code_location.start_position.character
                < r.code_location.end_position.character }

\* The errors query() can return: the namespace matcher's not-found error and
\* any other (a pattern segment that is no valid regular expression).
NamespaceFQDNNotFoundError ==
    [kind |-> "NamespaceFQDNNotFoundError", text |-> "unable to find FQDN for namespace"]
RegexError == [kind |-> "regex::Error", text |-> "regex parse error"]
QueryErrors == {NamespaceFQDNNotFoundError, RegexError}

\* The call returned before running the query.
NotRun == [ok |-> FALSE, res |-> <<>>, err |-> None]

QueryResults ==
    { [ok |-> TRUE, res |-> r, err |-> None] :
        r \in UNION { [1..n -> EmittedNodes] : n \in 0..MaxHits } }
    \cup { [ok |-> FALSE, res |-> <<>>, err |-> Some(e)] : e \in QueryErrors }

\* (r_span, r_start, r_end) of the deduplication loop.
SpanTuple(r) ==
    << r.code_location.end_position.line - r.code_location.start_position.line,
       r.code_location.start_position.character,
       r.code_location.end_position.character >>

\* Rust's tuple `<`: lexicographic.
TupleLess(a, b) ==
    \/ a[1] < b[1]
    \/ a[1] = b[1] /\ a[2] < b[2]
    \/ a[1] = b[1] /\ a[2] = b[2] /\ a[3] < b[3]

\* Mutant: keeps the widest span instead of the tightest.
DedupReplaces_Reversed(r, current) == TupleLess(SpanTuple(current), SpanTuple(r))

\* Mutant: compares the span and the start column only.
DedupReplaces_IgnoreEnd(r, current) ==
    \/ SpanTuple(r)[1] < SpanTuple(current)[1]
    \/ SpanTuple(r)[1] = SpanTuple(current)[1] /\ SpanTuple(r)[2] < SpanTuple(current)[2]

\* if (r_span, r_start, r_end) < (current_span, current_start, current_end)
DedupReplaces(r, current) == TupleLess(SpanTuple(r), SpanTuple(current))

\* Mutant: groups by file alone.
DedupKey_FileOnly(r) == <<r.file_uri, 0>>

\* let key = (r.file_uri.clone(), r.line_number);
DedupKey(r) == <<r.file_uri, r.line_number>>

\* best_by_location.entry(key).and_modify(..).or_insert(r)
DedupEntry(best, r) ==
    IF DedupKey(r) \in DOMAIN best
    THEN IF DedupReplaces(r, best[DedupKey(r)])
         THEN [best EXCEPT ![DedupKey(r)] = r]
         ELSE best
    ELSE best @@ (DedupKey(r) :> r)

EmptyMap == [k \in {} |-> None]

RECURSIVE DedupFrom(_, _, _)
DedupFrom(res, i, best) ==
    IF i > Len(res) THEN best
    ELSE DedupFrom(res, i + 1, DedupEntry(best, res[i]))

Deduplicate(res) == DedupFrom(res, 1, EmptyMap)

\* Ord of the BTreeMap key (String, usize).
KeyLess(k1, k2) ==
    \/ StrLess(k1[1], k2[1])
    \/ k1[1] = k2[1] /\ k1[2] < k2[2]

RECURSIVE KeysInOrder(_)
KeysInOrder(S) ==
    IF S = {} THEN <<>>
    ELSE LET k == CHOOSE x \in S : \A y \in S \ {x} : KeyLess(x, y)
         IN <<k>> \o KeysInOrder(S \ {k})

\* best_by_location.values(): the values in ascending key order.
MapValues(best) ==
    LET ks == KeysInOrder(DOMAIN best)
    IN [i \in 1..Len(ks) |-> best[ks[i]]]

\* impl From<&ResultNode> for IncidentContext
IncidentContext(r) ==
    [ file_uri |-> r.file_uri,
      code_location |-> Some(r.code_location),
      line_number |-> Some(r.line_number),
      variables |-> Some(r.variables) ]

\* The generated accessor line_number(): the value, or 0 when unset.
LineNumberOf(i) == IF IsSome(i.line_number) THEN Unwrap(i.line_number) ELSE 0

\* format!("{}-{:?}", i.file_uri, i.line_number())
SortKey(i) == i.file_uri \o <<"-">> \o Decimal(LineNumberOf(i))

\* Where a stable sort puts x in a sorted list: after every element whose key
\* is not greater.
RECURSIVE InsertByKey(_, _)
InsertByKey(s, x) ==
    IF s = <<>> THEN <<x>>
    ELSE IF StrLess(SortKey(x), SortKey(Head(s))) THEN <<x>> \o s
    ELSE <<Head(s)>> \o InsertByKey(Tail(s), x)

RECURSIVE SortByKeyFrom(_, _, _)
SortByKeyFrom(s, i, acc) ==
    IF i > Len(s) THEN acc
    ELSE SortByKeyFrom(s, i + 1, InsertByKey(acc, s[i]))

\* i.sort_by_key(..) (a stable sort)
SortByKey(s) == SortByKeyFrom(s, 1, <<>>)

Incidents(best) ==
    LET new_results == MapValues(best)
    IN SortByKey([k \in 1..Len(new_results) |-> IncidentContext(new_results[k])])

\* Result<Response<EvaluateResponse>, Status>
RpcOk(error, successful, resp) ==
    [rpc |-> "Ok", error |-> error, successful |-> successful, response |-> resp]
RpcErr(code, message) ==
    [rpc |-> "Err", error |-> message, successful |-> FALSE, response |-> None]

\* Mutant: every query error is reported as a failure.
ErrorResponse_AlwaysFailure(e) == RpcOk(e.text, FALSE, None)

\* The Err(e) arm of `match results`.
ErrorResponse(e) ==
    IF e.kind = "NamespaceFQDNNotFoundError"
    THEN RpcOk("", TRUE, Some([matched |-> FALSE, incident_contexts |-> <<>>]))
    ELSE RpcOk(e.text, FALSE, None)

\* The Ok(res) arm of `match results`.
OkResponse(best) ==
    LET i == Incidents(best)
    IN RpcOk("", TRUE, Some([matched |-> i # <<>>, incident_contexts |-> i]))

Requests ==
    { [cap |-> c, condition |-> k] :
        c \in {"referenced", "dependency"}, k \in {None, Some("referenced")} }

Projects == {None, Some([source_type |-> None]), Some([source_type |-> Some("Source")])}

\* Whether the call gets as far as running the query.
RunsQuery(req) ==
    /\ req.cap = "referenced"
    /\ IsSome(req.condition)
    /\ IsSome(project)
    /\ IsSome(Unwrap(project).source_type)

\* One evaluate call, on the pending request.
Evaluate ==
    LET req == Unwrap(request)
        q == query_result
    IN
    /\ response = None
    /\ best_by_location' =
         IF RunsQuery(req) /\ q.ok THEN Deduplicate(q.res) ELSE EmptyMap
    /\ response' =
         Some(IF req.cap # "referenced"
              THEN RpcOk("unable to find referenced capability", FALSE, None)
              ELSE IF ~IsSome(req.condition)
              THEN RpcErr("Internal", "failed")
              ELSE IF ~IsSome(project)
              THEN RpcOk("project may not be initialized", FALSE, None)
              ELSE IF ~IsSome(Unwrap(project).source_type)
              THEN RpcOk("project may not be initialized", FALSE, None)
              ELSE IF q.ok THEN OkResponse(Deduplicate(q.res))
              ELSE ErrorResponse(Unwrap(q.err)))
    /\ UNCHANGED <<project, request, query_result>>
    /\ UNCHANGED xmlVars
    /\ UNCHANGED callVars
    /\ UNCHANGED lockVars
    /\ UNCHANGED slotVars
    /\ UNCHANGED walkVars

NoCall ==
    /\ call = <<>>
    /\ returned = <<>>

NoLocks ==
    /\ pc = <<>>
    /\ project_lock = <<>>
    /\ graph_lock = <<>>

NoSlot ==
    /\ graph_slot = <<>>
    /\ graph_poisoned = FALSE

NoWalk == walk = <<>>

XmlIdle ==
    /\ source = <<>>
    /\ inter_node_info = <<>>
    /\ inter_edge_info = <<>>
    /\ stack_graph = <<>>
    /\ build_result = None
    /\ cancellation_flag = FALSE

\* A request has arrived; query_result is what query.query() returns if the
\* call gets that far.
EvaluateInit ==
    /\ project \in Projects
    /\ request \in { Some(r) : r \in Requests }
    /\ query_result \in
         IF RunsQuery(Unwrap(request)) THEN QueryResults ELSE {NotRun}
    /\ best_by_location = EmptyMap
    /\ response = None
    /\ XmlIdle
    /\ NoCall
    /\ NoLocks
    /\ NoSlot
    /\ NoWalk

EvaluateNext == Evaluate

SpecEvaluate == EvaluateInit /\ [][EvaluateNext]_vars

\* The call has returned, it ran its query, and the query succeeded.
QuerySucceeded ==
    /\ IsSome(response)
    /\ RunsQuery(Unwrap(request))
    /\ query_result.ok
RawHits == query_result.res
IncidentList == Unwrap(Unwrap(response).response).incident_contexts

IncidentKey(i) == <<i.file_uri, LineNumberOf(i)>>
IncidentSpanTuple(i) == SpanTuple([code_location |-> Unwrap(i.code_location)])

\* RawHits holds two hits of one (file_uri, line_number) at positions i < j.
SameLocationPair(i, j) ==
    /\ i \in 1..Len(RawHits) /\ j \in 1..Len(RawHits) /\ i < j
    /\ DedupKey(RawHits[i]) = DedupKey(RawHits[j])

\* C1: after deduplication the incident list holds at most one incident per
\* (file_uri, line_number), and one for every (file_uri, line_number) that
\* occurs among the raw hits.
C1_OneIncidentPerLocation ==
    QuerySucceeded =>
        /\ \A i, j \in 1..Len(IncidentList) :
              i # j => IncidentKey(IncidentList[i]) # IncidentKey(IncidentList[j])
        /\ \A k \in 1..Len(RawHits) :
              \E i \in 1..Len(IncidentList) :
                  IncidentKey(IncidentList[i]) = DedupKey(RawHits[k])

\* Three raw hits, two of them at one location, gave two incidents.
C1_Witness ==
    /\ QuerySucceeded
    /\ Len(RawHits) = 3
    /\ Len(IncidentList) = 2
    /\ \E i, j \in 1..3 : SameLocationPair(i, j) /\ RawHits[i] # RawHits[j]

\* C2: the survivor of each (file_uri, line_number) group is a hit of the
\* group whose (end.line - start.line, start.character, end.character) is
\* lexicographically smallest in the group.
C2_SurvivorIsTightest ==
    QuerySucceeded =>
        \A k \in 1..Len(RawHits) :
            \E i \in 1..Len(IncidentList) :
                /\ IncidentKey(IncidentList[i]) = DedupKey(RawHits[k])
                /\ ~TupleLess(SpanTuple(RawHits[k]), IncidentSpanTuple(IncidentList[i]))
                /\ \E m \in 1..Len(RawHits) :
                      IncidentList[i] = IncidentContext(RawHits[m])

\* A later hit of the same location and the same number of lines, further to
\* the left, replaced an earlier one.
C2_Witness ==
    /\ QuerySucceeded
    /\ \E i, j \in 1..Len(RawHits) :
          /\ SameLocationPair(i, j)
          /\ SpanTuple(RawHits[i])[1] = SpanTuple(RawHits[j])[1]
          /\ SpanTuple(RawHits[j])[2] < SpanTuple(RawHits[i])[2]
          /\ best_by_location[DedupKey(RawHits[j])] = RawHits[j]

Permute(res, p) == [k \in 1..Len(res) |-> res[p[k]]]

\* C3: every permutation of the raw hits deduplicates to the same map from
\* (file_uri, line_number) to the chosen representative.
C3_OrderIndependent ==
    QuerySucceeded =>
        \A p \in Permutations(1..Len(RawHits)) :
            Deduplicate(Permute(RawHits, p)) = best_by_location

\* Three different hits of one location, the tightest of them in the middle.
C3_Witness ==
    /\ QuerySucceeded
    /\ Len(RawHits) = 3
    /\ SameLocationPair(1, 2) /\ SameLocationPair(2, 3)
    /\ TupleLess(SpanTuple(RawHits[2]), SpanTuple(RawHits[1]))
    /\ TupleLess(SpanTuple(RawHits[2]), SpanTuple(RawHits[3]))
    /\ RawHits[1] # RawHits[3]

\* C4 (as claimed): the incident list is in ascending order of
\* (file_uri, line_number), the line number compared as a number.
C4_SortedByFileAndLine ==
    QuerySucceeded =>
        \A i, j \in 1..Len(IncidentList) :
            i < j => KeyLess(IncidentKey(IncidentList[i]), IncidentKey(IncidentList[j]))

\* C5: a namespace-not-found error gives a successful response with
\* matched = false and no incidents; any other query error gives an
\* unsuccessful response carrying the error text; a successful query gives
\* matched = (the incident list is not empty).
C5_ErrorMapping ==
    (IsSome(response) /\ RunsQuery(Unwrap(request))) =>
        LET r == Unwrap(response) IN
        IF query_result.ok
        THEN /\ r.rpc = "Ok" /\ r.successful /\ IsSome(r.response)
             /\ Unwrap(r.response).matched = (Unwrap(r.response).incident_contexts # <<>>)
        ELSE IF Unwrap(query_result.err) = NamespaceFQDNNotFoundError
        THEN /\ r.rpc = "Ok" /\ r.successful /\ r.error = ""
             /\ r.response = Some([matched |-> FALSE, incident_contexts |-> <<>>])
        ELSE /\ ~r.successful
             /\ r.error = Unwrap(query_result.err).text
             /\ r.response = None

\* The query failed with the namespace-not-found error and evaluate answered.
C5_Witness ==
    /\ IsSome(response)
    /\ RunsQuery(Unwrap(request))
    /\ ~query_result.ok
    /\ Unwrap(query_result.err) = NamespaceFQDNNotFoundError
    /\ Unwrap(response).successful

\* ------------------------------------------------------------------------
\* String operations used by the indexer
\* ------------------------------------------------------------------------
HasChar(s, c) == \E i \in 1..Len(s) : s[i] = c
FirstIndex(s, c) == CHOOSE i \in 1..Len(s) : s[i] = c /\ \A j \in 1..(i - 1) : s[j] # c

\* str::split(c): the segments between the occurrences of c (one segment,
\* the whole string, when c does not occur; also for the empty string).
RECURSIVE SplitOn(_, _)
SplitOn(s, c) ==
    IF ~HasChar(s, c) THEN <<s>>
    ELSE <<SubSeq(s, 1, FirstIndex(s, c) - 1)>>
            \o SplitOn(SubSeq(s, FirstIndex(s, c) + 1, Len(s)), c)

\* str::contains(sub)
Contains(s, sub) ==
    \E i \in 1..(Len(s) - Len(sub) + 1) : SubSeq(s, i, i + Len(sub) - 1) = sub

Front(s) == SubSeq(s, 1, Len(s) - 1)
Last(s) == s[Len(s)]

\* ------------------------------------------------------------------------
\* handle_member: c_sharp_graph/dependency_xml_analyzer.rs
\* ------------------------------------------------------------------------
NodeInfo(symbol, syntax_type) == [symbol |-> symbol, syntax_type |-> syntax_type]
EdgeInfo(src, sink, precedence) == [source |-> src, sink |-> sink, precedence |-> precedence]

\* Mutant: an entry that is skipped leaves an edge between nodes it never made.
NoFragment_DanglingEdge ==
    [ nodes |-> <<>>,
      edges |-> << EdgeInfo(NodeInfo(<<"?">>, "NamespaceDeclaration"),
                            NodeInfo(<<"?">>, "ClassDef"), 0) >> ]

NoFragment == [nodes |-> <<>>, edges |-> <<>>]

\* The closure of the namespace fold: a part replaces an empty accumulator and
\* is otherwise appended after a '.'.
FoldStep(acc, p) == IF acc = <<>> THEN p ELSE acc \o <<".">> \o p

\* interface_check_parts of the T arm: a part holding '#' is cut at the first.
InterfaceCut(p) == IF Len(SplitOn(p, "#")) > 1 THEN SplitOn(p, "#")[1] ELSE p

RECURSIVE NamespaceFold(_, _, _)
NamespaceFold(parts, acc, cut) ==
    IF parts = <<>> THEN acc
    ELSE NamespaceFold(Tail(parts),
                       FoldStep(acc, IF cut THEN InterfaceCut(Head(parts)) ELSE Head(parts)),
                       cut)

\* The "T" arm.
TypeFragment(name) ==
    IF name = <<>> THEN NoFragment
    ELSE LET parts == SplitOn(name, ".")
             type_name == NodeInfo(Last(parts), "ClassDef")
             namespace_node ==
                 NodeInfo(NamespaceFold(Front(parts), <<>>, TRUE), "NamespaceDeclaration")
         IN [ nodes |-> <<type_name, namespace_node>>,
              edges |-> << EdgeInfo(namespace_node, type_name, 0),
                           EdgeInfo(type_name, namespace_node, 10) >> ]

\* Mutant: the class's edge back to its namespace is not emitted.
MemberEdges_NoBackEdge(namespace_node, type_name, member) ==
    << EdgeInfo(namespace_node, type_name, 0),
       EdgeInfo(type_name, member, 0),
       EdgeInfo(member, type_name, 10) >>

\* The four edges.push(..) of the "F" | "P" arm and of the "M" arm.
MemberEdges(namespace_node, type_name, member) ==
    << EdgeInfo(namespace_node, type_name, 0),
       EdgeInfo(type_name, member, 0),
       EdgeInfo(member, type_name, 10),
       EdgeInfo(type_name, namespace_node, 10) >>

\* The "F" | "P" arm.
FieldFragment(name) ==
    IF name = <<>> THEN NoFragment
    ELSE LET parts == SplitOn(name, ".") IN
         IF Len(parts) < 2 THEN NoFragment
         ELSE LET field_name == NodeInfo(Last(parts), "FieldName")
                  type_name == NodeInfo(Last(Front(parts)), "ClassDef")
                  namespace_node ==
                      NodeInfo(NamespaceFold(Front(Front(parts)), <<>>, FALSE),
                               "NamespaceDeclaration")
              IN [ nodes |-> <<field_name, type_name, namespace_node>>,
                   edges |-> MemberEdges(namespace_node, type_name, field_name) ]

\* Mutant: the parameter list stays in the name.
StripParams_Keep(name) == name

\* new_name: the name up to its first '('.
StripParams(name) == IF HasChar(name, "(") THEN SplitOn(name, "(")[1] ELSE name

CtorMarker == <<"#", "c", "t", "o", "r">>

\* The "M" arm.
MethodFragment(name) ==
    IF name = <<>> THEN NoFragment
    ELSE LET parts == SplitOn(StripParams(name), ".") IN
         IF Len(parts) < 2 THEN NoFragment
         ELSE LET is_ctor == Contains(Last(parts), CtorMarker)
                  method_node ==
                      NodeInfo(IF is_ctor THEN Last(Front(parts)) ELSE Last(parts),
                               "MethodName")
                  type_name == NodeInfo(Last(Front(parts)), "ClassDef")
                  namespace_node ==
                      NodeInfo(NamespaceFold(Front(Front(parts)), <<>>, FALSE),
                               "NamespaceDeclaration")
              IN [ nodes |-> <<method_node, type_name, namespace_node>>,
                   edges |-> MemberEdges(namespace_node, type_name, method_node) ]

\* Mutant: a namespace entry with an empty name is ignored like the others.
HandleMember_EmptyNamespaceIgnored(member_type, name) ==
    IF name = <<>> THEN NoFragment
    ELSE IF member_type = <<"N">>
    THEN [nodes |-> <<NodeInfo(name, "NamespaceDeclaration")>>, edges |-> <<>>]
    ELSE IF member_type = <<"T">> THEN TypeFragment(name)
    ELSE IF member_type = <<"F">> \/ member_type = <<"P">> THEN FieldFragment(name)
    ELSE IF member_type = <<"M">> THEN MethodFragment(name)
    ELSE NoFragment

HandleMember(member_type, name) ==
    IF member_type = <<"N">>
    THEN [nodes |-> <<NodeInfo(name, "NamespaceDeclaration")>>, edges |-> <<>>]
    ELSE IF member_type = <<"T">> THEN TypeFragment(name)
    ELSE IF member_type = <<"F">> \/ member_type = <<"P">> THEN FieldFragment(name)
    ELSE IF member_type = <<"M">> THEN MethodFragment(name)
    ELSE NoFragment

\* ------------------------------------------------------------------------
\* The stack graph
\* ------------------------------------------------------------------------
\* SyntaxType's Display, the inverse of SyntaxType::get on the known names.
SyntaxTypeToString(t) ==
    CASE t = "Import" -> "import"
      [] t = "CompUnit" -> "comp_unit"
      [] t = "NamespaceDeclaration" -> "namespace_declaration"
      [] t = "ClassDef" -> "class_def"
      [] t = "MethodName" -> "method_name"
      [] t = "FieldName" -> "field_name"
      [] t = "LocalVar" -> "local_var"
      [] t = "Argument" -> "argument"
      [] OTHER -> "name"

\* SyntaxType::get
SyntaxTypeGet(str) ==
    CASE str = "import" -> "Import"
      [] str = "comp_unit" -> "CompUnit"
      [] str = "namespace_declaration" -> "NamespaceDeclaration"
      [] str = "class_def" -> "ClassDef"
      [] str = "method_name" -> "MethodName"
      [] str = "field_name" -> "FieldName"
      [] str = "local_var" -> "LocalVar"
      [] str = "argument" -> "Argument"
      [] OTHER -> "Name"

\* A node: its file, its symbol and its source info's syntax type, each
\* optional. A node's handle is its index in the arena.
GraphNode(file, symbol, syntax_type) ==
    [file |-> file, symbol |-> symbol, syntax_type |-> syntax_type]

\* StackGraph::new(): the root node and the jump-to node.
NewStackGraph ==
    [ nodes |-> <<GraphNode(None, None, None), GraphNode(None, None, None)>>,
      edges |-> {} ]

\* add_pop_symbol_node with a fresh node id, then source_info_mut(..).syntax_type.
AddNode(g, file, symbol, syntax_type) ==
    [g EXCEPT !.nodes =
        Append(@, GraphNode(Some(file), Some(symbol), Some(SyntaxTypeToString(syntax_type))))]

\* StackGraph::add_edge: a second edge between the same two nodes is ignored.
AddEdge(g, src, sink, precedence) ==
    IF \E e \in g.edges : e.source = src /\ e.sink = sink THEN g
    ELSE [g EXCEPT !.edges =
            @ \cup {[source |-> src, sink |-> sink, precedence |-> precedence]}]

RECURSIVE EdgesBySink(_)
EdgesBySink(S) ==
    IF S = {} THEN <<>>
    ELSE LET e == CHOOSE x \in S : \A y \in S : x.sink <= y.sink
         IN <<e>> \o EdgesBySink(S \ {e})

\* StackGraph::outgoing_edges: the node's edges, in ascending order of sink.
OutgoingEdges(g, n) == EdgesBySink({e \in g.edges : e.source = n})

NodesOfFile(g, file) == {n \in 1..Len(g.nodes) : g.nodes[n].file = Some(file)}

SyntaxTypeOf(g, n) == SyntaxTypeGet(Unwrap(g.nodes[n].syntax_type))
SymbolOf(g, n) == Unwrap(g.nodes[n].symbol)

\* ------------------------------------------------------------------------
\* get_fqdn: c_sharp_graph/query.rs
\* ------------------------------------------------------------------------
EmptyFqdn == [namespace |-> None, class |-> None, method |-> None, field |-> None]

Hierarchical == {"NamespaceDeclaration", "ClassDef", "MethodName", "FieldName"}

FqdnField(syntax_type) ==
    CASE syntax_type = "NamespaceDeclaration" -> "namespace"
      [] syntax_type = "ClassDef" -> "class"
      [] syntax_type = "MethodName" -> "method"
      [] syntax_type = "FieldName" -> "field"

\* f.x = f.x.map_or_else(|| Some(symbol), |n| Some(format!("{}.{}", n, symbol)))
AppendSymbol(f, syntax_type, symbol) ==
    [f EXCEPT ![FqdnField(syntax_type)] =
        IF @ = None THEN Some(symbol) ELSE Some(Unwrap(@) \o <<".">> \o symbol)]

\* graph.outgoing_edges(node).find(|e| e.precedence == 10)
FqdnEdge(g, n) ==
    LET es == SelectSeq(OutgoingEdges(g, n), LAMBDA e : e.precedence = 10)
    IN IF es = <<>> THEN None ELSE Some(Head(es))

RECURSIVE get_fqdn(_, _)
get_fqdn(node, graph) ==
    LET syntax_type == SyntaxTypeOf(graph, node)
        symbol == SymbolOf(graph, node)
        fqdn_edge == FqdnEdge(graph, node)
    IN IF fqdn_edge = None
       THEN IF syntax_type \in Hierarchical
            THEN Some(AppendSymbol(EmptyFqdn, syntax_type, symbol))
            ELSE None
       ELSE LET up == get_fqdn(Unwrap(fqdn_edge).sink, graph)
            IN IF up = None THEN Some(EmptyFqdn)
               ELSE IF syntax_type \in Hierarchical
               THEN Some(AppendSymbol(Unwrap(up), syntax_type, symbol))
               ELSE None

\* ------------------------------------------------------------------------
\* build_stack_graph_into: c_sharp_graph/dependency_xml_analyzer.rs
\* ------------------------------------------------------------------------
\* The _cancellation_flag parameter is never read: no definition below takes it.
\* The source is the stream of events the XML reader yields for it: a
\* <member> start/empty element with its name attribute (None when it has
\* none), any other event, or a reader error. The end of the stream is Eof.
MemberEvent(name) == [tag |-> "member", name |-> name]
OtherEvent == [tag |-> "other", name |-> None]
ErrorEvent == [tag |-> "error", name |-> None]

BuildOk == Some("Ok")
ParseError == Some("ParseError")

\* The file being indexed; its path is the CompUnit's symbol.
File == <<"d">>

\* The read loop: the fragments of the member entries, in document order.
RECURSIVE ReadEvents(_, _, _)
ReadEvents(events, nodes, edges) ==
    IF events = <<>> THEN [ok |-> TRUE, nodes |-> nodes, edges |-> edges]
    ELSE LET e == Head(events) IN
         IF e.tag = "error" THEN [ok |-> FALSE, nodes |-> nodes, edges |-> edges]
         ELSE IF e.tag # "member" \/ e.name = None
         THEN ReadEvents(Tail(events), nodes, edges)
         ELSE LET parts == SplitOn(Unwrap(e.name), ":") IN
              IF Len(parts) # 2 THEN ReadEvents(Tail(events), nodes, edges)
              ELSE LET fragment == HandleMember(parts[1], parts[2])
                   IN ReadEvents(Tail(events), nodes \o fragment.nodes,
                                 edges \o fragment.edges)

\* The four HashMap<String, Handle<Node>>, as one set of entries.
NoNodes == {}

MapEntry(node, handle) ==
    [syntax_type |-> node.syntax_type, symbol |-> node.symbol, handle |-> handle]

\* HashMap::insert: the entry replaces one of the same key.
MapInsert(maps, node, handle) ==
    {m \in maps : ~(m.syntax_type = node.syntax_type /\ m.symbol = node.symbol)}
        \cup {MapEntry(node, handle)}

\* Mutant: the maps are never consulted.
NodeKnown_Never(maps, node) == FALSE

\* map_<kind>_nodes.get(&node.symbol).is_some()
NodeKnown(maps, node) ==
    \E m \in maps : m.syntax_type = node.syntax_type /\ m.symbol = node.symbol

MapGet(maps, node) ==
    (CHOOSE m \in maps : m.syntax_type = node.syntax_type /\ m.symbol = node.symbol).handle

\* Mutant: a namespace node is not linked to the compilation unit.
LinkCompUnit_Skip(g, comp_unit_node_handle, node_handle) == g

\* stack_graph.add_edge(comp_unit_node_handle, node_handle, 0)
LinkCompUnit(g, comp_unit_node_handle, node_handle) ==
    AddEdge(g, comp_unit_node_handle, node_handle, 0)

\* The loop over inter_node_info.
RECURSIVE CreateNodes(_, _, _, _)
CreateNodes(infos, g, maps, comp_unit_node_handle) ==
    IF infos = <<>> THEN [ok |-> TRUE, graph |-> g, maps |-> maps]
    ELSE LET node == Head(infos) IN
         IF node.syntax_type \notin Hierarchical
         THEN [ok |-> FALSE, graph |-> g, maps |-> maps]
         ELSE IF NodeKnown(maps, node)
         THEN CreateNodes(Tail(infos), g, maps, comp_unit_node_handle)
         ELSE LET g1 == AddNode(g, File, node.symbol, node.syntax_type)
                  node_handle == Len(g1.nodes)
                  g2 == IF node.syntax_type = "NamespaceDeclaration"
                        THEN LinkCompUnit(g1, comp_unit_node_handle, node_handle)
                        ELSE g1
              IN CreateNodes(Tail(infos), g2, MapInsert(maps, node, node_handle),
                             comp_unit_node_handle)

\* The loop over inter_edge_info.
RECURSIVE CreateEdges(_, _, _)
CreateEdges(infos, g, maps) ==
    IF infos = <<>> THEN [ok |-> TRUE, graph |-> g]
    ELSE LET edge == Head(infos) IN
         IF \/ edge.source.syntax_type \notin Hierarchical
            \/ ~NodeKnown(maps, edge.source)
            \/ edge.sink.syntax_type \notin Hierarchical
            \/ ~NodeKnown(maps, edge.sink)
         THEN [ok |-> FALSE, graph |-> g]
         ELSE CreateEdges(Tail(infos),
                          AddEdge(g, MapGet(maps, edge.source), MapGet(maps, edge.sink),
                                  edge.precedence),
                          maps)

\* What build_stack_graph_into does to graph g on the events of a source:
\* the collected fragments, the graph it leaves and the result it returns.
Build(events, g) ==
    LET read == ReadEvents(events, <<>>, <<>>)
        with_comp_unit == AddNode(g, File, File, "CompUnit")
        comp_unit_node_handle == Len(with_comp_unit.nodes)
        created == CreateNodes(read.nodes, with_comp_unit, NoNodes, comp_unit_node_handle)
        linked == CreateEdges(read.edges, created.graph, created.maps)
    IN [ nodes |-> read.nodes,
         edges |-> read.edges,
         graph |-> IF ~read.ok THEN g
                   ELSE IF ~created.ok THEN created.graph
                   ELSE linked.graph,
         result |-> IF read.ok /\ created.ok /\ linked.ok THEN BuildOk ELSE ParseError ]

\* One call of build_stack_graph_into on the source.
BuildStackGraphInto ==
    LET built == Build(source, stack_graph)
    IN
    /\ build_result = None
    /\ inter_node_info' = built.nodes
    /\ inter_edge_info' = built.edges
    /\ stack_graph' = built.graph
    /\ build_result' = built.result
    /\ UNCHANGED <<source, cancellation_flag>>
    /\ UNCHANGED evalVars
    /\ UNCHANGED callVars
    /\ UNCHANGED lockVars
    /\ UNCHANGED slotVars
    /\ UNCHANGED walkVars

EvaluateIdle ==
    /\ project = None
    /\ request = None
    /\ query_result = NotRun
    /\ best_by_location = EmptyMap
    /\ response = None

\* ------------------------------------------------------------------------
\* The indexer on a file holding a single member entry
\* ------------------------------------------------------------------------
MaxParts == 4

MemberKinds == { <<"N">>, <<"T">>, <<"F">>, <<"P">>, <<"M">> }

\* The dotted parts member names are made of: plain, empty, interface
\* qualified, constructor, and with a parameter list opening.
Segments ==
    { <<>>, <<"a">>, <<"b">>, <<"a", "#", "b">>, <<"#", "c", "t", "o", "r">>,
      <<"m", "(", "a">>, <<"#", "c", "t", "o", "r", "(">> }

RECURSIVE Join(_)
Join(parts) ==
    IF Len(parts) = 1 THEN Head(parts) ELSE Head(parts) \o <<".">> \o Join(Tail(parts))

RECURSIVE SegmentLists(_)
SegmentLists(n) ==
    IF n = 1 THEN { <<p>> : p \in Segments }
    ELSE SegmentLists(n - 1) \cup { l \o <<p>> : l \in SegmentLists(n - 1), p \in Segments }

MemberNames == { Join(l) : l \in SegmentLists(MaxParts) }

\* The kinds of the entries: the five handle_member knows and one it does not.
EntryKinds == MemberKinds \cup { <<"X">> }

MemberInit ==
    /\ source \in { <<MemberEvent(Some(k \o <<":">> \o n))>> :
                        k \in EntryKinds, n \in MemberNames }
    /\ inter_node_info = <<>>
    /\ inter_edge_info = <<>>
    /\ stack_graph = NewStackGraph
    /\ build_result = None
    /\ cancellation_flag = FALSE
    /\ EvaluateIdle
    /\ NoCall
    /\ NoLocks
    /\ NoSlot
    /\ NoWalk

MemberNext == BuildStackGraphInto

SpecMember == MemberInit /\ [][MemberNext]_vars

\* ------------------------------------------------------------------------
\* The indexer on a file holding several member entries
\* ------------------------------------------------------------------------
MaxMembers == 3

XmlEvents ==
    { MemberEvent(Some(<<"N", ":", "A">>)),
      MemberEvent(Some(<<"N", ":">>)),
      MemberEvent(Some(<<"T", ":", "A", ".", "X">>)),
      MemberEvent(Some(<<"T", ":", "B", ".", "X">>)),
      MemberEvent(Some(<<"T", ":">>)),
      MemberEvent(Some(<<"F", ":", "A", ".", "X", ".", "f">>)),
      MemberEvent(Some(<<"P", ":", "A", ".", "Y", ".", "f">>)),
      MemberEvent(Some(<<"F", ":", "f">>)),
      MemberEvent(Some(<<"M", ":", "A", ".", "X", ".", "m">>)),
      MemberEvent(Some(<<"M", ":", "B", ".", "X", ".", "m", "(", "a", ")">>)),
      MemberEvent(Some(<<"M", ":", "A", ".", "X", ".", "#", "c", "t", "o", "r">>)),
      MemberEvent(Some(<<"X", ":", "A">>)),
      MemberEvent(Some(<<"T">>)),
      MemberEvent(Some(<<"T", ":", "A", ":", "X">>)),
      MemberEvent(None),
      OtherEvent,
      ErrorEvent }

RECURSIVE Documents(_)
Documents(n) ==
    IF n = 0 THEN { <<>> }
    ELSE Documents(n - 1) \cup { d \o <<e>> : d \in Documents(n - 1), e \in XmlEvents }

XmlInit ==
    /\ source \in Documents(MaxMembers)
    /\ inter_node_info = <<>>
    /\ inter_edge_info = <<>>
    /\ stack_graph = NewStackGraph
    /\ build_result = None
    /\ cancellation_flag = FALSE
    /\ EvaluateIdle
    /\ NoCall
    /\ NoLocks
    /\ NoSlot
    /\ NoWalk

XmlNext == BuildStackGraphInto

SpecXml == XmlInit /\ [][XmlNext]_vars

\* ------------------------------------------------------------------------
\* Properties of FQDN reconstruction and of the indexer
\* ------------------------------------------------------------------------
BuildSucceeded == build_result = BuildOk

FileNodes == NodesOfFile(stack_graph, File)

NodesOfType(t) ==
    {n \in FileNodes : SyntaxTypeOf(stack_graph, n) = t}

\* C6: for every node n with a precedence-10 edge to a node m, get_fqdn(n) is
\* get_fqdn(m) with n's symbol appended to the field of n's syntax type (set
\* when empty, joined with '.' otherwise), the other fields unchanged.
C6_FqdnExtendsParent ==
    BuildSucceeded =>
        \A e \in {x \in stack_graph.edges : x.precedence = 10} :
            LET of_m == get_fqdn(e.sink, stack_graph)
            IN /\ of_m # None
               /\ get_fqdn(e.source, stack_graph) =
                    Some(AppendSymbol(Unwrap(of_m),
                                      SyntaxTypeOf(stack_graph, e.source),
                                      SymbolOf(stack_graph, e.source)))

\* The single entry of the file: its kind letter and its name.
EntryRaw == Unwrap(source[1].name)
EntryKind == EntryRaw[1]
EntryName == SubSeq(EntryRaw, 3, Len(EntryRaw))

\* The name without its parameter list: what precedes the first '('.
UpToParen(name) ==
    SubSeq(name, 1, IF HasChar(name, "(") THEN FirstIndex(name, "(") - 1 ELSE Len(name))

\* The dotted segments of the entry.
EntrySegments ==
    SplitOn(IF EntryKind = "M" THEN UpToParen(EntryName) ELSE EntryName, ".")

EnoughParts ==
    /\ EntryName # <<>>
    /\ EntryKind \in {"F", "P", "M"} => Len(EntrySegments) >= 2

IsCtor == EntryKind = "M" /\ Contains(Last(EntrySegments), CtorMarker)

ClassSegment ==
    IF EntryKind = "T" THEN Last(EntrySegments)
    ELSE EntrySegments[Len(EntrySegments) - 1]

MemberSegment == IF IsCtor THEN ClassSegment ELSE Last(EntrySegments)

LeadingSegments ==
    IF EntryKind = "T" THEN Front(EntrySegments) ELSE Front(Front(EntrySegments))

JoinAll(parts) == IF parts = <<>> THEN <<>> ELSE Join(parts)

\* A segment up to its first '#'.
UpToHash(p) == SubSeq(p, 1, IF HasChar(p, "#") THEN FirstIndex(p, "#") - 1 ELSE Len(p))

RECURSIVE DropEmptyFront(_)
DropEmptyFront(parts) ==
    IF parts # <<>> /\ Head(parts) = <<>> THEN DropEmptyFront(Tail(parts)) ELSE parts

\* The leading segments as the namespace is assembled from them.
AssembledSegments ==
    DropEmptyFront(IF EntryKind = "T"
                   THEN [i \in 1..Len(LeadingSegments) |-> UpToHash(LeadingSegments[i])]
                   ELSE LeadingSegments)

MostSpecificType ==
    CASE EntryKind = "T" -> "ClassDef"
      [] EntryKind \in {"F", "P"} -> "FieldName"
      [] EntryKind = "M" -> "MethodName"

ExpectedFqdn(namespace) ==
    [ namespace |-> Some(namespace),
      class |-> Some(ClassSegment),
      method |-> IF EntryKind = "M" THEN Some(MemberSegment) ELSE None,
      field |-> IF EntryKind \in {"F", "P"} THEN Some(MemberSegment) ELSE None ]

RoundTripYields(namespace) ==
    (BuildSucceeded /\ EntryKind \in {"T", "F", "P", "M"} /\ EnoughParts) =>
        /\ NodesOfType(MostSpecificType) # {}
        /\ \A n \in NodesOfType(MostSpecificType) :
               get_fqdn(n, stack_graph) = Some(ExpectedFqdn(namespace))

\* C7 as stated: the namespace is the leading segments joined by '.'.
C7_RoundTripPlainJoin == RoundTripYields(JoinAll(LeadingSegments))

\* C7: for a T, F, P or M entry with enough dotted parts, get_fqdn of the
\* most specific node of the materialised fragment yields class = the class
\* segment, field/method = the member segment (parameter list stripped, a
\* constructor named after its class) and namespace = the leading segments
\* joined by '.', after each is cut at its first '#' (T entries only) and the
\* empty segments at the front are dropped.
C7_RoundTrip == RoundTripYields(JoinAll(AssembledSegments))

\* A constructor with a parameter list, inside a namespace.
C7_Witness ==
    /\ BuildSucceeded
    /\ EnoughParts
    /\ IsCtor
    /\ HasChar(EntryName, "(")
    /\ LeadingSegments # <<>>
    /\ \E n \in NodesOfType("MethodName") :
           get_fqdn(n, stack_graph) = Some(ExpectedFqdn(JoinAll(LeadingSegments)))

\* The key the indexer files a node under: its kind and its symbol.
NodeKey(n) == <<stack_graph.nodes[n].syntax_type, stack_graph.nodes[n].symbol>>

InfoKey(info) == <<Some(SyntaxTypeToString(info.syntax_type)), Some(info.symbol)>>

\* C8: after build_stack_graph_into on one file there is at most one node of
\* the file per (kind, symbol): the nodes other than the CompUnit are the
\* distinct (kind, symbol) pairs of the collected entries, one node each.
C8_OneNodePerSymbol ==
    /\ \A n1, n2 \in FileNodes : NodeKey(n1) = NodeKey(n2) => n1 = n2
    /\ BuildSucceeded =>
           {NodeKey(n) : n \in FileNodes \ NodesOfType("CompUnit")}
               = {InfoKey(inter_node_info[i]) : i \in 1..Len(inter_node_info)}

\* The entries repeat a (kind, symbol) pair.
C8_Witness ==
    /\ BuildSucceeded
    /\ \E i, j \in 1..Len(inter_node_info) :
           i < j /\ inter_node_info[i] = inter_node_info[j]
    /\ Cardinality(FileNodes) > 2

\* C9: after build_stack_graph_into succeeds the file has exactly one CompUnit
\* node, with a precedence-0 edge to every namespace node of the file; it is
\* the file's only node when the XML has no member entries.
C9_OneCompUnitLinkedToNamespaces ==
    BuildSucceeded =>
        /\ Cardinality(NodesOfType("CompUnit")) = 1
        /\ \A cu \in NodesOfType("CompUnit"), ns \in NodesOfType("NamespaceDeclaration") :
               [source |-> cu, sink |-> ns, precedence |-> 0] \in stack_graph.edges
        /\ (\A i \in 1..Len(source) : source[i].tag # "member")
               => FileNodes = NodesOfType("CompUnit")

\* Several namespaces were created.
C9_Witness ==
    /\ BuildSucceeded
    /\ Cardinality(NodesOfType("NamespaceDeclaration")) >= 2

ContainerChild ==
    { <<"NamespaceDeclaration", "ClassDef">>,
      <<"ClassDef", "FieldName">>,
      <<"ClassDef", "MethodName">> }

HasEdgeInfo(e) == \E j \in 1..Len(inter_edge_info) : inter_edge_info[j] = e

\* C10: in the fragment of a T, F, P or M entry every edge is either a
\* precedence-0 edge from a container to a child (namespace to class, class to
\* field, class to method) whose precedence-10 edge from the child back to the
\* container is in the fragment too, or such a back edge.
C10_EdgesArePaired ==
    (build_result # None /\ EntryKind \in {"T", "F", "P", "M"}) =>
        \A i \in 1..Len(inter_edge_info) :
            LET e == inter_edge_info[i] IN
            \/ /\ e.precedence = 0
               /\ <<e.source.syntax_type, e.sink.syntax_type>> \in ContainerChild
               /\ HasEdgeInfo(EdgeInfo(e.sink, e.source, 10))
            \/ /\ e.precedence = 10
               /\ <<e.sink.syntax_type, e.source.syntax_type>> \in ContainerChild
               /\ HasEdgeInfo(EdgeInfo(e.sink, e.source, 0))

\* A method entry with its four edges.
C10_Witness ==
    /\ build_result # None
    /\ EntryKind = "M"
    /\ Len(inter_edge_info) = 4
    /\ HasEdgeInfo(EdgeInfo(NodeInfo(<<"a">>, "ClassDef"), NodeInfo(<<"b">>, "MethodName"), 0))
    /\ HasEdgeInfo(EdgeInfo(NodeInfo(<<"b">>, "MethodName"), NodeInfo(<<"a">>, "ClassDef"), 10))

\* ------------------------------------------------------------------------
\* Entries the indexer cannot parse
\* ------------------------------------------------------------------------
CountOf(s, c) == Cardinality({i \in 1..Len(s) : s[i] = c})

KindOf(raw) == SubSeq(raw, 1, FirstIndex(raw, ":") - 1)
NameOf(raw) == SubSeq(raw, FirstIndex(raw, ":") + 1, Len(raw))

\* The dotted parts of a name of the given kind, parameter list removed.
DottedParts(kind, name) ==
    SplitOn(IF kind = <<"M">> THEN UpToParen(name) ELSE name, ".")

\* A member element whose entry cannot be parsed: no name attribute, not one
\* kind and one name around ':', an unknown kind, or too few dotted parts.
Unparseable(e) ==
    \/ e.name = None
    \/ CountOf(Unwrap(e.name), ":") # 1
    \/ LET kind == KindOf(Unwrap(e.name))
           name == NameOf(Unwrap(e.name))
       IN \/ kind \notin MemberKinds
          \/ kind # <<"N">> /\ name = <<>>
          \/ kind \in {<<"F">>, <<"P">>, <<"M">>} /\ Len(DottedParts(kind, name)) < 2

IsMember(e) == e.tag = "member"

WithoutUnparseable(events) ==
    SelectSeq(events, LAMBDA e : ~(IsMember(e) /\ Unparseable(e)))

NoReaderError == \A i \in 1..Len(source) : source[i].tag # "error"

\* C11: a member entry that cannot be parsed is skipped without aborting the
\* file: build_stack_graph_into succeeds, leaves the graph it leaves for the
\* file without these entries, and every node of every other entry is there.
C11_UnparseableSkipped ==
    (build_result # None /\ NoReaderError) =>
        /\ BuildSucceeded
        /\ stack_graph = Build(WithoutUnparseable(source), NewStackGraph).graph
        /\ inter_node_info = Build(WithoutUnparseable(source), NewStackGraph).nodes
        /\ inter_edge_info = Build(WithoutUnparseable(source), NewStackGraph).edges
        /\ \A i \in 1..Len(source) :
               (IsMember(source[i]) /\ ~Unparseable(source[i])) =>
                   LET fragment == HandleMember(KindOf(Unwrap(source[i].name)),
                                                NameOf(Unwrap(source[i].name)))
                   IN /\ fragment.nodes # <<>>
                      /\ \A k \in 1..Len(fragment.nodes) :
                             \E n \in FileNodes : NodeKey(n) = InfoKey(fragment.nodes[k])

\* An entry that cannot be parsed stands between two that can.
C11_Witness ==
    /\ BuildSucceeded
    /\ Len(source) = 3
    /\ IsMember(source[1]) /\ ~Unparseable(source[1])
    /\ IsMember(source[2]) /\ Unparseable(source[2])
    /\ IsMember(source[3]) /\ ~Unparseable(source[3])
    /\ source[1] # source[3]
    /\ Cardinality(FileNodes) >= 5

\* ------------------------------------------------------------------------
\* The indexer called with a cancellation flag
\* ------------------------------------------------------------------------
MaxCancelMembers == 2

CancelInit ==
    /\ source \in Documents(MaxCancelMembers)
    /\ cancellation_flag \in BOOLEAN
    /\ inter_node_info = <<>>
    /\ inter_edge_info = <<>>
    /\ stack_graph = NewStackGraph
    /\ build_result = None
    /\ EvaluateIdle
    /\ NoCall
    /\ NoLocks
    /\ NoSlot
    /\ NoWalk

CancelNext == BuildStackGraphInto

SpecCancel == CancelInit /\ [][CancelNext]_vars

Cancelled == Some("Cancelled")

\* C12: once the cancellation token is cancelled, build_stack_graph_into
\* processes no further event and returns a Cancelled error: called with a
\* cancelled token it collects nothing, leaves the graph alone and returns
\* Cancelled.
C12_CancelledStopsBuild ==
    (build_result # None /\ cancellation_flag) =>
        /\ build_result = Cancelled
        /\ inter_node_info = <<>>
        /\ stack_graph = NewStackGraph

\* ------------------------------------------------------------------------
\* Search: c_sharp_graph/query.rs
\* ------------------------------------------------------------------------
SearchPart(part, regex) == [part |-> part, regex |-> regex]

\* The group a '*' of a part is replaced by.
AnyRun == "(.*)"

\* Regex::new(part.replace("*", "(.*)")): the part's characters, each '*'
\* turned into a group; the part "*" itself compiles to ".*", the same run.
CompileRegex(part) ==
    [i \in 1..Len(part) |-> IF part[i] = "*" THEN AnyRun ELSE part[i]]

\* The regex matches the string s from its first to its last character.
RECURSIVE RegexMatchesAll(_, _)
RegexMatchesAll(regex, s) ==
    IF regex = <<>> THEN s = <<>>
    ELSE IF Head(regex) = AnyRun
    THEN \E k \in 0..Len(s) : RegexMatchesAll(Tail(regex), SubSeq(s, k + 1, Len(s)))
    ELSE s # <<>> /\ Head(s) = Head(regex) /\ RegexMatchesAll(Tail(regex), Tail(s))

\* Regex::is_match: the regex matches somewhere in the string.
RegexIsMatch(regex, s) ==
    \E i \in 1..(Len(s) + 1) : \E j \in (i - 1)..Len(s) :
        RegexMatchesAll(regex, SubSeq(s, i, j))

\* Search::create_search
CreateSearch(query) ==
    LET parts == SplitOn(query, ".")
    IN [k \in 1..Len(parts) |->
            SearchPart(parts[k],
                       IF HasChar(parts[k], "*") THEN Some(CompileRegex(parts[k]))
                       ELSE None)]

\* SearchPart::matches
Matches(search_part, match_string) ==
    IF search_part.regex = None THEN search_part.part = match_string
    ELSE RegexIsMatch(Unwrap(search_part.regex), match_string)

\* The loop of partial_namespace and of match_namespace, from index i.
RECURSIVE NamespaceLoop(_, _, _)
NamespaceLoop(parts, symbol_parts, i) ==
    IF i > Len(symbol_parts) THEN TRUE
    ELSE IF Len(parts) < i THEN TRUE
    ELSE IF ~Matches(parts[i], symbol_parts[i]) THEN FALSE
    ELSE NamespaceLoop(parts, symbol_parts, i + 1)

\* Search::partial_namespace
PartialNamespace(search, symbol) == NamespaceLoop(search, SplitOn(symbol, "."), 1)

\* Search::match_namespace
MatchNamespace(search, symbol) == NamespaceLoop(search, SplitOn(symbol, "."), 1)

\* Search::match_symbol
SearchMatchSymbol(search, symbol) == Matches(Last(search), symbol)

MaxPatternLen == 3
MaxSymbolLen == 3

RECURSIVE StringsOver(_, _)
StringsOver(alphabet, n) ==
    IF n = 0 THEN { <<>> }
    ELSE StringsOver(alphabet, n - 1)
            \cup { s \o <<c>> : s \in StringsOver(alphabet, n - 1), c \in alphabet }

Patterns == StringsOver({"a", "b", "*", "."}, MaxPatternLen)
Symbols == StringsOver({"a", "b", "."}, MaxSymbolLen)

Return(fn, value) == Some([fn |-> fn, value |-> value])

CallMatchSymbol ==
    /\ returned = None
    /\ returned' = Return("match_symbol",
                          SearchMatchSymbol(CreateSearch(Unwrap(call).query),
                                            Unwrap(call).symbol))
    /\ UNCHANGED <<call, evalVars, xmlVars, lockVars, slotVars, walkVars>>

CallPartialNamespace ==
    /\ returned = None
    /\ returned' = Return("partial_namespace",
                          PartialNamespace(CreateSearch(Unwrap(call).query),
                                           Unwrap(call).symbol))
    /\ UNCHANGED <<call, evalVars, xmlVars, lockVars, slotVars, walkVars>>

CallMatchNamespace ==
    /\ returned = None
    /\ returned' = Return("match_namespace",
                          MatchNamespace(CreateSearch(Unwrap(call).query),
                                         Unwrap(call).symbol))
    /\ UNCHANGED <<call, evalVars, xmlVars, lockVars, slotVars, walkVars>>

SearchInit ==
    /\ call \in { Some([query |-> q, symbol |-> y]) : q \in Patterns, y \in Symbols }
    /\ returned = None
    /\ EvaluateIdle
    /\ XmlIdle
    /\ NoLocks
    /\ NoSlot
    /\ NoWalk

SearchNext == CallMatchSymbol \/ CallPartialNamespace \/ CallMatchNamespace

SpecSearch == SearchInit /\ [][SearchNext]_vars

\* A pattern segment matches a string as a whole: equal characters, each '*'
\* standing for any run of characters.
RECURSIVE WholeMatch(_, _)
WholeMatch(segment, s) ==
    IF segment = <<>> THEN s = <<>>
    ELSE IF Head(segment) = "*"
    THEN \E k \in 0..Len(s) : WholeMatch(Tail(segment), SubSeq(s, k + 1, Len(s)))
    ELSE s # <<>> /\ Head(s) = Head(segment) /\ WholeMatch(Tail(segment), Tail(s))

Returned(fn) == returned # None /\ Unwrap(returned).fn = fn

PatternSegments == SplitOn(Unwrap(call).query, ".")
SymbolSegments == SplitOn(Unwrap(call).symbol, ".")

\* C13: match_symbol(symbol) is true exactly when the last pattern segment
\* matches the whole symbol, so a symbol that only contains a match is
\* rejected.
C13_MatchSymbolWhole ==
    Returned("match_symbol") =>
        Unwrap(returned).value = WholeMatch(Last(PatternSegments), Unwrap(call).symbol)

Min(a, b) == IF a < b THEN a ELSE b

\* C14: partial_namespace and match_namespace return the same value, true
\* exactly when the first min(symbol segments, pattern segments) segments
\* match pairwise.
C14_NamespacePrefix ==
    (Returned("partial_namespace") \/ Returned("match_namespace")) =>
        /\ PartialNamespace(CreateSearch(Unwrap(call).query), Unwrap(call).symbol)
             = MatchNamespace(CreateSearch(Unwrap(call).query), Unwrap(call).symbol)
        /\ Unwrap(returned).value =
             \A i \in 1..Min(Len(SymbolSegments), Len(PatternSegments)) :
                 WholeMatch(PatternSegments[i], SymbolSegments[i])

\* ------------------------------------------------------------------------
\* Entries that lack required parts
\* ------------------------------------------------------------------------
\* The entry lacks a required part: an empty name, a field, property or method
\* name of one dotted part, a constructor without a class segment before it.
LacksRequiredParts ==
    \/ EntryKind \in {"T", "F", "P", "M"} /\ EntryName = <<>>
    \/ EntryKind \in {"F", "P", "M"} /\ Len(SplitOn(EntryName, ".")) = 1
    \/ EntryKind = "M" /\ Len(EntrySegments) = 1 /\ Contains(EntrySegments[1], CtorMarker)

\* C15: handle_member emits no nodes and no edges for an entry that lacks
\* required parts and for a kind other than N, T, F, P, M; an N entry emits
\* exactly one namespace node, named by the entry, and no edges, also for the
\* empty name.
C15_NothingForIncompleteEntries ==
    build_result # None =>
        /\ (LacksRequiredParts \/ EntryKind \notin {"N", "T", "F", "P", "M"}) =>
               inter_node_info = <<>> /\ inter_edge_info = <<>>
        /\ EntryKind = "N" =>
               /\ inter_node_info = <<NodeInfo(EntryName, "NamespaceDeclaration")>>
               /\ inter_edge_info = <<>>

\* A constructor entry with a parameter list and no class before it.
C15_Witness ==
    /\ build_result # None
    /\ EntryKind = "M"
    /\ Len(EntrySegments) = 1
    /\ Contains(EntrySegments[1], CtorMarker)
    /\ HasChar(EntryName, "(")
    /\ inter_node_info = <<>>

\* ------------------------------------------------------------------------
\* FieldSymbols: c_sharp_graph/field_query.rs
\* ------------------------------------------------------------------------
\* Option::unwrap_or
UnwrapOr(o, default) == IF o = None THEN default ELSE Unwrap(o)

\* FieldSymbols::symbol_in_namespace, on the keys of self.fields
SymbolInNamespace(fields, symbol) ==
    LET parts == SplitOn(symbol, ".") IN
    IF Len(parts) # 2 THEN FALSE
    ELSE LET field_part == Last(parts)
             class_part == Head(parts)
         IN \E fqdn \in fields :
                LET field == UnwrapOr(fqdn.method, <<>>)
                    class == UnwrapOr(fqdn.class, <<>>)
                IN IF field = field_part THEN TRUE
                   ELSE field = field_part /\ class = class_part

\* SymbolMatcher::match_symbol for FieldSymbols
FieldMatchSymbol(fields, symbol) == SymbolInNamespace(fields, symbol)

\* The keys FieldSymbols::new stores: get_fqdn of field nodes.
FieldFqdns ==
    { [namespace |-> Some(<<"n">>), class |-> Some(c), method |-> None, field |-> Some(f)] :
        c \in { <<"a">>, <<"b">> }, f \in { <<"a">>, <<"b">> } }

CallFieldMatchSymbol ==
    /\ returned = None
    /\ returned' = Return("FieldSymbols::match_symbol",
                          FieldMatchSymbol(Unwrap(call).fields, Unwrap(call).symbol))
    /\ UNCHANGED <<call, evalVars, xmlVars, lockVars, slotVars, walkVars>>

FieldInit ==
    /\ call \in { Some([fields |-> f, symbol |-> y]) : f \in SUBSET FieldFqdns, y \in Symbols }
    /\ returned = None
    /\ EvaluateIdle
    /\ XmlIdle
    /\ NoLocks
    /\ NoSlot
    /\ NoWalk

FieldNext == CallFieldMatchSymbol

SpecField == FieldInit /\ [][FieldNext]_vars

\* C16: FieldSymbols::match_symbol is false for a symbol not of the form
\* Class.Field, and for Class.Field true exactly when some stored Fqdn has
\* that class and that field.
C16_FieldMatchSymbol ==
    Returned("FieldSymbols::match_symbol") =>
        LET parts == SplitOn(Unwrap(call).symbol, ".")
        IN Unwrap(returned).value =
             (/\ Len(parts) = 2
              /\ \E fqdn \in Unwrap(call).fields :
                     fqdn.class = Some(parts[1]) /\ fqdn.field = Some(parts[2]))

\* ------------------------------------------------------------------------
\* NamespaceSymbols::new: c_sharp_graph/namespace_query.rs
\* ------------------------------------------------------------------------
\* The nodes with a file, a symbol and a syntax type, in iter_nodes order.
TypedNodes(graph) ==
    SelectSeq([n \in 1..Len(graph.nodes) |-> n],
              LAMBDA n : /\ graph.nodes[n].file # None
                         /\ graph.nodes[n].symbol # None
                         /\ graph.nodes[n].syntax_type # None)

\* get_starting_nodes: definition_root_nodes
DefinitionRootNodes(graph, search) ==
    SelectSeq(TypedNodes(graph),
              LAMBDA n : /\ SyntaxTypeOf(graph, n) = "NamespaceDeclaration"
                         /\ MatchNamespace(search, SymbolOf(graph, n)))

\* Mutant: the sinks of all the node's edges.
ChildEdges_All(db, node) ==
    LET es == OutgoingEdges(db, node)
    IN [k \in 1..Len(es) |-> es[k].sink]

\* The sinks of the node's edges whose precedence is not 10, in edge order.
ChildEdges(db, node) ==
    LET es == SelectSeq(OutgoingEdges(db, node), LAMBDA e : e.precedence # 10)
    IN [k \in 1..Len(es) |-> es[k].sink]

\* The sink passes the symbol test and has one of the four kinds.
MatchedDefinition(db, n, search) ==
    /\ db.nodes[n].symbol # None
    /\ SearchMatchSymbol(search, SymbolOf(db, n))
    /\ db.nodes[n].syntax_type # None
    /\ SyntaxTypeOf(db, n) \in Hierarchical

RECURSIVE NamespaceTraverseNode(_, _, _)
RECURSIVE NamespaceTraverseChildren(_, _, _)

\* NamespaceSymbols::traverse_node
NamespaceTraverseNode(db, node, search) ==
    LET child_edges == ChildEdges(db, node)
        matched == SelectSeq(child_edges, LAMBDA n : MatchedDefinition(db, n, search))
    IN IF matched # <<>> THEN get_fqdn(Head(matched), db)
       ELSE NamespaceTraverseChildren(db, child_edges, search)

\* The second loop of traverse_node, over the sorted child_edges.
NamespaceTraverseChildren(db, child_edges, search) ==
    IF child_edges = <<>> THEN None
    ELSE LET fqdn == NamespaceTraverseNode(db, Head(child_edges), search)
         IN IF fqdn # None THEN fqdn
            ELSE NamespaceTraverseChildren(db, Tail(child_edges), search)

\* The loop of NamespaceSymbols::new over the root nodes.
RECURSIVE FirstNamespaceFqdn(_, _, _)
FirstNamespaceFqdn(graph, nodes, search) ==
    IF nodes = <<>> THEN None
    ELSE LET fqdn == NamespaceTraverseNode(graph, Head(nodes), search)
         IN IF fqdn # None THEN fqdn
            ELSE FirstNamespaceFqdn(graph, Tail(nodes), search)

\* NamespaceSymbols::new: the error, or the matcher's namespace.
NamespaceSymbolsNew(graph, nodes, search) ==
    LET fqdn == FirstNamespaceFqdn(graph, nodes, search)
    IN IF fqdn = None
       THEN [ok |-> FALSE, namespace |-> None, err |-> Some(NamespaceFQDNNotFoundError)]
       ELSE [ok |-> TRUE, namespace |-> fqdn, err |-> None]

MaxNsMembers == 3

NsEvents ==
    { MemberEvent(Some(<<"N", ":", "A">>)),
      MemberEvent(Some(<<"T", ":", "A", ".", "X">>)),
      MemberEvent(Some(<<"M", ":", "A", ".", "X", ".", "a", "m">>)),
      MemberEvent(Some(<<"F", ":", "A", ".", "X", ".", "f">>)),
      MemberEvent(Some(<<"T", ":", "B", ".", "Y">>)) }

RECURSIVE NsDocuments(_)
NsDocuments(n) ==
    IF n = 0 THEN { <<>> }
    ELSE NsDocuments(n - 1) \cup { d \o <<e>> : d \in NsDocuments(n - 1), e \in NsEvents }

\* The graphs the indexer builds for these documents.
NsGraphs == { Build(d, NewStackGraph).graph : d \in NsDocuments(MaxNsMembers) }

NsPatterns ==
    { <<"*">>, <<"A", ".", "*">>, <<"A", ".", "X">>, <<"A", ".", "f">>,
      <<"A", ".", "m", "*">>, <<"B", ".", "*">>, <<"Z", ".", "*">> }

CallNamespaceSymbolsNew ==
    /\ returned = None
    /\ returned' = Return("NamespaceSymbols::new",
                          NamespaceSymbolsNew(Unwrap(call).graph, Unwrap(call).nodes,
                                              CreateSearch(Unwrap(call).query)))
    /\ UNCHANGED <<call, evalVars, xmlVars, lockVars, slotVars, walkVars>>

NamespaceInit ==
    /\ call \in { Some([graph |-> g, query |-> q,
                        nodes |-> DefinitionRootNodes(g, CreateSearch(q))]) :
                    g \in NsGraphs, q \in NsPatterns }
    /\ returned = None
    /\ EvaluateIdle
    /\ XmlIdle
    /\ NoLocks
    /\ NoSlot
    /\ NoWalk

NamespaceNext == CallNamespaceSymbolsNew

SpecNamespace == NamespaceInit /\ [][NamespaceNext]_vars

\* The nodes reached from the given nodes over one or more edges whose
\* precedence is 0.
RECURSIVE ReachedFrom(_, _, _)
ReachedFrom(graph, frontier, seen) ==
    LET next == {e.sink : e \in {x \in graph.edges :
                                    x.source \in frontier /\ x.precedence = 0}} \ seen
    IN IF next = {} THEN seen ELSE ReachedFrom(graph, next, seen \cup next)

Range(f) == {f[i] : i \in DOMAIN f}

\* The definitions under the roots of the call whose symbol matches the last
\* segment of its pattern.
NamespaceCandidates ==
    LET graph == Unwrap(call).graph
    IN { n \in ReachedFrom(graph, Range(Unwrap(call).nodes), {}) :
            /\ graph.nodes[n].symbol # None
            /\ graph.nodes[n].syntax_type # None
            /\ SyntaxTypeOf(graph, n) \in Hierarchical
            /\ WholeMatch(Last(PatternSegments), SymbolOf(graph, n)) }

\* C17: NamespaceSymbols::new returns the namespace-not-found error exactly
\* when no namespace, class, method or field node under a definition root has
\* a symbol matching the pattern's last segment (so also without roots), and
\* otherwise a matcher whose namespace is that of such a node.
C17_NotFoundIffNoCandidate ==
    Returned("NamespaceSymbols::new") =>
        LET result == Unwrap(returned).value IN
        /\ ~result.ok <=> NamespaceCandidates = {}
        /\ ~result.ok => result.err = Some(NamespaceFQDNNotFoundError)
        /\ result.ok =>
               \E n \in NamespaceCandidates :
                   result.namespace = get_fqdn(n, Unwrap(call).graph)

\* ------------------------------------------------------------------------
\* Concurrent evaluate calls: provider/csharp.rs
\* ------------------------------------------------------------------------
\* An evaluate call that has passed the capability and condition checks goes
\* through these positions:
\*   "lock_project"  awaiting self.project.lock()
\*   "read_project"  holding the project guard, reading project and source type
\*   "lock_graph"    project guard dropped, blocked in graph_guard.lock()
\*   "query"         holding the graph guard, query.query(..) running
\*   "respond"       query finished, building the response
\*   "done"          returned; the guards it held are dropped
\*   "panicked"      unwound by a panic; the guards it held are dropped
MaxCalls == 3

Calls == 1..MaxCalls

\* self.project.lock().await
LockProject(c) ==
    /\ pc[c] = "lock_project"
    /\ project_lock = None
    /\ project_lock' = Some(c)
    /\ pc' = [pc EXCEPT ![c] = "read_project"]
    /\ UNCHANGED <<graph_lock, evalVars, xmlVars, callVars, slotVars, walkVars>>

\* The project and source type tests; drop(project_guard) or an early return.
ReadProject(c) ==
    /\ pc[c] = "read_project"
    /\ project_lock' = None
    /\ pc' = [pc EXCEPT ![c] =
                IF IsSome(project) /\ IsSome(Unwrap(project).source_type)
                THEN "lock_graph" ELSE "done"]
    /\ UNCHANGED <<graph_lock, evalVars, xmlVars, callVars, slotVars, walkVars>>

\* graph_guard.lock(): a poisoned mutex is cleared and its value taken with
\* into_inner(); the guard is bound to graph_option for the rest of the call.
\* graph_option.as_ref().unwrap() then panics on an empty slot: the guard is
\* dropped while the call unwinds, which poisons the mutex.
LockGraph(c) ==
    /\ pc[c] = "lock_graph"
    /\ graph_lock = None
    /\ IF IsSome(graph_slot)
       THEN /\ graph_lock' = Some(c)
            /\ graph_poisoned' = FALSE
            /\ pc' = [pc EXCEPT ![c] = "query"]
       ELSE /\ graph_lock' = None
            /\ graph_poisoned' = TRUE
            /\ pc' = [pc EXCEPT ![c] = "panicked"]
    /\ UNCHANGED <<graph_slot, project_lock, evalVars, xmlVars, callVars, walkVars>>

\* query.query(pattern) runs to its end.
RunQuery(c) ==
    /\ pc[c] = "query"
    /\ pc' = [pc EXCEPT ![c] = "respond"]
    /\ UNCHANGED <<project_lock, graph_lock, evalVars, xmlVars, callVars, slotVars, walkVars>>

\* The response is built and returned; graph_option goes out of scope.
Respond(c) ==
    /\ pc[c] = "respond"
    /\ graph_lock' = IF graph_lock = Some(c) THEN None ELSE graph_lock
    /\ pc' = [pc EXCEPT ![c] = "done"]
    /\ UNCHANGED <<project_lock, evalVars, xmlVars, callVars, slotVars, walkVars>>

LocksInit ==
    /\ project \in Projects
    /\ request = None
    /\ query_result = NotRun
    /\ best_by_location = EmptyMap
    /\ response = None
    /\ pc = [c \in Calls |-> "lock_project"]
    /\ project_lock = None
    /\ graph_lock = None
    /\ graph_slot = Some({"project"})
    /\ graph_poisoned = FALSE
    /\ XmlIdle
    /\ NoCall
    /\ NoWalk

LocksNext ==
    \E c \in Calls :
        \/ LockProject(c)
        \/ ReadProject(c)
        \/ LockGraph(c)
        \/ RunQuery(c)
        \/ Respond(c)

SpecLocks == LocksInit /\ [][LocksNext]_vars

\* C18: an evaluate call holds no lock on the project or on the graph slot
\* while its query runs, so a second call never has to wait for the first
\* call's query: no call stands blocked on a guard that a querying call holds.
C18_QueryHoldsNoLock ==
    \A c \in DOMAIN pc :
        pc[c] = "query" =>
            /\ project_lock # Some(c)
            /\ graph_lock # Some(c)
            /\ \A d \in DOMAIN pc : pc[d] = "lock_graph" => graph_lock = None

\* ------------------------------------------------------------------------
\* get_code_snip: provider/code_snip.rs
\* ------------------------------------------------------------------------
\* format!("{} {}\n", number, line): one numbered line of the snip.
SnipLine(number, line) == [number |-> number, line |-> line]

\* The snip of a file (its lines, line 0 first) for a location from line
\* start to line end, with context_lines lines of context.
GetCodeSnip(file, start, end, context_lines) ==
    LET skip_lines == IF start >= context_lines THEN start - context_lines ELSE 0
        take == (end - start) + context_lines
        taken == SubSeq(file, skip_lines + 1, Min(Len(file), skip_lines + take))
    IN [index \in 1..Len(taken) |-> SnipLine(skip_lines + (index - 1), taken[index])]

MaxFileLines == 3
MaxLine == 2
MaxContext == 1

Files == StringsOver({"x", "y"}, MaxFileLines)

CallGetCodeSnip ==
    /\ returned = None
    /\ returned' = Return("get_code_snip",
                          GetCodeSnip(Unwrap(call).file, Unwrap(call).start,
                                      Unwrap(call).end, Unwrap(call).context_lines))
    /\ UNCHANGED <<call, evalVars, xmlVars, lockVars, slotVars, walkVars>>

SnipInit ==
    /\ call \in { Some([file |-> f, start |-> a, end |-> b, context_lines |-> k]) :
                    f \in Files, a \in 0..MaxLine, b \in 0..MaxLine, k \in 0..MaxContext }
    /\ Unwrap(call).start <= Unwrap(call).end
    /\ returned = None
    /\ EvaluateIdle
    /\ XmlIdle
    /\ NoLocks
    /\ NoSlot
    /\ NoWalk

SnipNext == CallGetCodeSnip

SpecSnip == SnipInit /\ [][SnipNext]_vars

Max(a, b) == IF a > b THEN a ELSE b

\* C19: get_code_snip returns exactly the lines numbered from
\* max(0, start.line - context_lines) to end.line + context_lines inclusive,
\* as far as the file has them, each with its line number.
C19_SnipIsContextWindow ==
    Returned("get_code_snip") =>
        LET c == Unwrap(call)
            first == Max(0, c.start - c.context_lines)
            last == Min(c.end + c.context_lines, Len(c.file) - 1)
        IN Unwrap(returned).value =
             [k \in 1..Max(0, last - first + 1) |->
                 SnipLine(first + k - 1, c.file[first + k])]

\* ------------------------------------------------------------------------
\* Querier::query, the loop over referenced_files: c_sharp_graph/query.rs
\* ------------------------------------------------------------------------
\* The files of the graph a query can refer to.
QueryFiles == { <<"a">>, <<"b">>, <<"c">> }

\* traverse_node_search from the compilation unit of a file pushes the hits
\* found in that file; every hit carries the file's URI.
TraverseFile(file, results) == Append(results, ResultNode(file, 2, 0, 0, 1))

\* The loop of Querier::query over referenced_files, taken in the order the
\* hash set yields them.  A file without a compilation unit ends the loop, a
\* file that is not linked to the source type node is passed over, and a file
\* whose name is not an absolute path ends the loop.
RECURSIVE QueryLoop(_, _, _, _, _, _)
QueryLoop(files, file_to_compunit_handle, is_source, source_files, url_files, results) ==
    IF files = <<>> THEN results
    ELSE LET file == Head(files) IN
         IF file \notin file_to_compunit_handle THEN results
         ELSE IF is_source /\ file \notin source_files
              THEN QueryLoop(Tail(files), file_to_compunit_handle, is_source,
                             source_files, url_files, results)
         ELSE IF file \notin url_files THEN results
         ELSE QueryLoop(Tail(files), file_to_compunit_handle, is_source,
                        source_files, url_files, TraverseFile(file, results))

QuerierQuery(c) ==
    QueryLoop(c.referenced_files, c.file_to_compunit_handle, c.is_source,
              c.source_files, c.url_files, <<>>)

\* The orders in which a hash set of files can be iterated.
IterationOrders(files) ==
    { order \in [1..Cardinality(files) -> files] :
        \A i, j \in DOMAIN order : i # j => order[i] # order[j] }

CallQuerierQuery ==
    /\ returned = None
    /\ returned' = Return("query", QuerierQuery(Unwrap(call)))
    /\ UNCHANGED <<call, evalVars, xmlVars, lockVars, slotVars, walkVars>>

QueryInit ==
    /\ \E referenced \in SUBSET QueryFiles, is_source \in BOOLEAN :
         call \in { Some([ referenced_files |-> order,
                           file_to_compunit_handle |-> units,
                           is_source |-> is_source,
                           source_files |-> sources,
                           url_files |-> urls ]) :
                      order \in IterationOrders(referenced),
                      units \in SUBSET QueryFiles,
                      sources \in IF is_source THEN SUBSET QueryFiles ELSE { {} },
                      urls \in SUBSET QueryFiles }
    /\ returned = None
    /\ EvaluateIdle
    /\ XmlIdle
    /\ NoLocks
    /\ NoSlot
    /\ NoWalk

QueryNext == CallQuerierQuery

SpecQuery == QueryInit /\ [][QueryNext]_vars

\* The files whose hits are among the results.
TraversedFiles(results) == { results[k].file_uri : k \in DOMAIN results }

\* The referenced files that have a compilation unit, pass the source-origin
\* gating and have a name that makes a file URI.
TraversableFiles(c) ==
    { file \in Range(c.referenced_files) :
        /\ file \in c.file_to_compunit_handle
        /\ c.is_source => file \in c.source_files
        /\ file \in c.url_files }

\* C20: a query traverses every referenced file that has a compilation unit
\* and passes the source-origin gating, whatever the iteration order of
\* referenced_files and whether or not other referenced files lack a
\* compilation unit; so every iteration order yields the same set of hits.
C20_EveryKnownFileTraversed ==
    Returned("query") =>
        LET c == Unwrap(call)
            hits == Unwrap(returned).value
        IN /\ TraversableFiles(c) \subseteq TraversedFiles(hits)
           /\ \A order \in IterationOrders(Range(c.referenced_files)) :
                 Range(QuerierQuery([c EXCEPT !.referenced_files = order]))
                   = Range(hits)

\* ------------------------------------------------------------------------
\* Member-access resolution, Querier::get_type_with_symbol:
\* c_sharp_graph/query.rs
\* ------------------------------------------------------------------------
\* A graph of source code also holds reference nodes (push symbol nodes);
\* every other node with a symbol is a definition.
SourceGraph == [ nodes |-> NewStackGraph.nodes, edges |-> {}, references |-> {} ]

\* A reference node of a file, with its symbol.
AddReference(g, file, symbol) ==
    LET g1 == AddNode(g, file, symbol, "Name")
    IN [g1 EXCEPT !.references = @ \cup {Len(g1.nodes)}]

IsReference(g, n) == n \in g.references
IsDefinition(g, n) == g.nodes[n].symbol # None /\ ~IsReference(g, n)

\* graph.outgoing_edges(n).find(|e| the sink's symbol is accessed_part)
FindMemberEdge(g, n, accessed_part) ==
    LET es == SelectSeq(OutgoingEdges(g, n),
                        LAMBDA e : g.nodes[e.sink].symbol = Some(accessed_part))
    IN IF es = <<>> THEN None ELSE Some(Head(es))

\* iter_nodes().find_map(..) of get_local_var_type_fqdn: the accessed member
\* of the first node carrying ref_symbol that has such a member.
RECURSIVE FindDefinedNode(_, _, _, _)
FindDefinedNode(g, x, ref_symbol, accessed_part) ==
    IF x > Len(g.nodes) THEN None
    ELSE LET found_edge == FindMemberEdge(g, x, accessed_part)
         IN IF g.nodes[x].symbol = Some(ref_symbol) /\ found_edge # None
            THEN Some(Unwrap(found_edge).sink)
            ELSE FindDefinedNode(g, x + 1, ref_symbol, accessed_part)

get_local_var_type_fqdn(g, definition_node, accessed_part_symbol, file) ==
    IF g.nodes[definition_node].file # Some(file) THEN None
    ELSE LET refs == SelectSeq(OutgoingEdges(g, definition_node),
                               LAMBDA e : IsReference(g, e.sink))
         IN IF refs = <<>> THEN None
            ELSE LET ref_symbol == SymbolOf(g, Head(refs).sink)
                     defined_node == FindDefinedNode(g, 1, ref_symbol, accessed_part_symbol)
                 IN IF defined_node = None THEN None
                    ELSE get_fqdn(Unwrap(defined_node), g)

\* One turn of the loop over the definitions of the accessor: the Fqdn the
\* definition resolves to, and whether the `?` of its arm leaves the function.
ResolveDefinition(g, node, definition_node, accessed_part) ==
    LET syntax_type == IF g.nodes[definition_node].syntax_type = None THEN "None"
                       ELSE SyntaxTypeOf(g, definition_node)
        found_edge == FindMemberEdge(g, definition_node, accessed_part)
    IN CASE syntax_type = "ClassDef" ->
              IF found_edge = None THEN [left |-> TRUE, fqdn |-> None]
              ELSE [left |-> FALSE, fqdn |-> get_fqdn(Unwrap(found_edge).sink, g)]
         [] syntax_type \in {"FieldName", "MethodName"} ->
              [left |-> FALSE, fqdn |-> get_fqdn(definition_node, g)]
         [] syntax_type = "LocalVar" ->
              IF g.nodes[node].file = None THEN [left |-> TRUE, fqdn |-> None]
              ELSE [left |-> FALSE,
                    fqdn |-> get_local_var_type_fqdn(g, definition_node, accessed_part,
                                                     Unwrap(g.nodes[node].file))]
         [] OTHER -> [left |-> FALSE, fqdn |-> None]

RECURSIVE DefinitionLoop(_, _, _, _)
DefinitionLoop(g, node, definitions, accessed_part) ==
    IF definitions = <<>> THEN None
    ELSE LET resolved == ResolveDefinition(g, node, Head(definitions), accessed_part)
         IN IF resolved.left THEN None
            ELSE IF resolved.fqdn # None THEN resolved.fqdn
            ELSE DefinitionLoop(g, node, Tail(definitions), accessed_part)

\* The definition nodes carrying the accessor, in node-iteration order.
NodesForDefinesSymbol(g, accessor) ==
    SelectSeq([n \in 1..Len(g.nodes) |-> n],
              LAMBDA n : IsDefinition(g, n) /\ g.nodes[n].symbol = Some(accessor))

get_type_with_symbol(g, node, symbol) ==
    LET parts == SplitOn(symbol, ".")
    IN IF Len(parts) # 2 THEN None
       ELSE IF \A n \in 1..Len(g.nodes) : g.nodes[n].symbol # Some(parts[1]) THEN None
       ELSE DefinitionLoop(g, node, NodesForDefinesSymbol(g, parts[1]), parts[2])

\* A source file's graph before the definitions of the accessor: its
\* compilation unit (3), a namespace n (4), a class t of n (5) and the
\* field B of t (6).
AccessBase ==
    LET g1 == AddNode(SourceGraph, File, File, "CompUnit")
        g2 == AddNode(g1, File, <<"n">>, "NamespaceDeclaration")
        g3 == AddNode(g2, File, <<"t">>, "ClassDef")
        g4 == AddNode(g3, File, <<"B">>, "FieldName")
    IN AddEdge(AddEdge(AddEdge(AddEdge(AddEdge(g4, 3, 4, 0), 4, 5, 0), 5, 4, 10),
                       5, 6, 0), 6, 5, 10)

\* The ways the accessor A can be defined.
DefinitionKinds ==
    { "class", "class_with_member", "field", "method", "local_var",
      "local_var_untyped", "name" }

\* The graph with one more definition of A: a class of n without or with a
\* member B, a field or a method of t, a local variable of type t or of no
\* known type, or a node of another syntax type.
AddDefinition(g, kind) ==
    LET syntax_type == CASE kind \in {"class", "class_with_member"} -> "ClassDef"
                         [] kind = "field" -> "FieldName"
                         [] kind = "method" -> "MethodName"
                         [] kind \in {"local_var", "local_var_untyped"} -> "LocalVar"
                         [] OTHER -> "Name"
        g1 == AddNode(g, File, <<"A">>, syntax_type)
        h == Len(g1.nodes)
    IN CASE kind = "class" -> AddEdge(AddEdge(g1, 4, h, 0), h, 4, 10)
         [] kind = "class_with_member" ->
              LET g2 == AddNode(g1, File, <<"B">>, "FieldName")
              IN AddEdge(AddEdge(AddEdge(AddEdge(g2, 4, h, 0), h, 4, 10),
                                 h, h + 1, 0), h + 1, h, 10)
         [] kind \in {"field", "method"} -> AddEdge(AddEdge(g1, 5, h, 0), h, 5, 10)
         [] kind = "local_var" -> AddEdge(AddReference(g1, File, <<"t">>), h, h + 1, 0)
         [] OTHER -> g1

RECURSIVE AddDefinitions(_, _)
AddDefinitions(g, kinds) ==
    IF kinds = <<>> THEN g ELSE AddDefinitions(AddDefinition(g, Head(kinds)), Tail(kinds))

MaxDefinitions == 3

\* The graphs with up to MaxDefinitions definitions of A and, last, the
\* reference A.B.
AccessCalls ==
    { LET g == AddReference(AddDefinitions(AccessBase, kinds), File, <<"A", ".", "B">>)
      IN [graph |-> g, node |-> Len(g.nodes), symbol |-> <<"A", ".", "B">>] :
        kinds \in UNION { [1..n -> DefinitionKinds] : n \in 0..MaxDefinitions } }

CallGetTypeWithSymbol ==
    /\ returned = None
    /\ returned' = Return("get_type_with_symbol",
                          get_type_with_symbol(Unwrap(call).graph, Unwrap(call).node,
                                               Unwrap(call).symbol))
    /\ UNCHANGED <<call, evalVars, xmlVars, lockVars, slotVars, walkVars>>

AccessInit ==
    /\ call \in { Some(c) : c \in AccessCalls }
    /\ returned = None
    /\ EvaluateIdle
    /\ XmlIdle
    /\ NoLocks
    /\ NoSlot
    /\ NoWalk

AccessNext == CallGetTypeWithSymbol

SpecAccess == AccessInit /\ [][AccessNext]_vars

\* The Fqdn of the first of the definitions that resolves, None when none does.
RECURSIVE FirstSuccessful(_, _, _, _)
FirstSuccessful(g, node, definitions, accessed_part) ==
    IF definitions = <<>> THEN None
    ELSE LET fqdn == ResolveDefinition(g, node, Head(definitions), accessed_part).fqdn
         IN IF fqdn # None THEN fqdn
            ELSE FirstSuccessful(g, node, Tail(definitions), accessed_part)

\* C21: resolution of a reference A.B returns the Fqdn of the first
\* definition of A, in node-iteration order, that resolves; a definition
\* that fails to resolve does not stop the later ones from being tried.
C21_FirstSuccessfulDefinition ==
    Returned("get_type_with_symbol") =>
        LET c == Unwrap(call)
        IN Unwrap(returned).value =
             FirstSuccessful(c.graph, c.node,
                             NodesForDefinesSymbol(c.graph, <<"A">>), <<"B">>)

\* The precedence-10 edges leaving a node of the graph built from the source.
FqdnEdges(n) == {e \in stack_graph.edges : e.source = n /\ e.precedence = 10}

\* The node the indexer filed under a syntax type and a symbol.
NodeFor(syntax_type, symbol) ==
    CHOOSE n \in NodesOfType(syntax_type) : SymbolOf(stack_graph, n) = symbol

\* The F, P and M entries of the source that name a namespace, a class and
\* a member.
MemberEntries ==
    { i \in DOMAIN source :
        /\ IsMember(source[i])
        /\ ~Unparseable(source[i])
        /\ KindOf(Unwrap(source[i].name)) \in { <<"F">>, <<"P">>, <<"M">> }
        /\ Len(DottedParts(KindOf(Unwrap(source[i].name)),
                           NameOf(Unwrap(source[i].name)))) >= 3 }

\* C22: in the graph built for one XML file every class, method and field
\* node has exactly one outgoing precedence-10 edge, and for every entry
\* NS.Class.Member of the file the reconstruction from the member's node
\* yields namespace NS and class Class.
C22_UniqueFqdnEdge ==
    BuildSucceeded =>
        /\ \A n \in NodesOfType("ClassDef") \cup NodesOfType("MethodName")
                      \cup NodesOfType("FieldName") :
               Cardinality(FqdnEdges(n)) = 1
        /\ \A i \in MemberEntries :
               LET kind == KindOf(Unwrap(source[i].name))
                   name == NameOf(Unwrap(source[i].name))
                   parts == DottedParts(kind, name)
                   member == HandleMember(kind, name).nodes[1]
                   fqdn == get_fqdn(NodeFor(member.syntax_type, member.symbol), stack_graph)
               IN /\ fqdn # None
                  /\ Unwrap(fqdn).namespace = Some(JoinAll(Front(Front(parts))))
                  /\ Unwrap(fqdn).class = Some(Last(Front(parts)))

\* ------------------------------------------------------------------------
\* The forward walks: Querier::traverse_node_search (query.rs) and the
\* traverse_node of ClassSymbols, FieldSymbols and NamespaceSymbols
\* ------------------------------------------------------------------------
\* A walk is a recursion over the graph; one step of the model is one call
\* of the walk's function without the calls it makes on the children, which
\* wait in traverse_nodes, the next one first.  The walk also records the
\* nodes it was called on and the edges whose sink it took up.
StartWalk(nodes) ==
    Some([ traverse_nodes |-> nodes,
           visited |-> {},
           followed |-> {},
           results |-> <<>>,
           found |-> {},
           namespace |-> None ])

Walking == walk # None /\ Unwrap(walk).traverse_nodes # <<>>
WalkDone == walk # None /\ Unwrap(walk).traverse_nodes = <<>>

\* The edges of the node that the loop does not pass over.
ForwardEdges(g, node) == {e \in g.edges : e.source = node /\ e.precedence # 10}

\* The calls left after the call on the first pending node pushed children.
Descend(w, g, children) ==
    [w EXCEPT !.traverse_nodes = children \o Tail(@),
              !.visited = @ \cup {Head(w.traverse_nodes)},
              !.followed = @ \cup {e \in ForwardEdges(g, Head(w.traverse_nodes)) :
                                     \E k \in DOMAIN children : children[k] = e.sink}]

\* symbol_matcher's verdict on a child: a reference is resolved and its Fqdn
\* matched, any other node is matched by its symbol.
Accepted(c, n) ==
    /\ c.graph.nodes[n].symbol # None
    /\ IF IsReference(c.graph, n)
       THEN /\ get_type_with_symbol(c.graph, n, SymbolOf(c.graph, n)) # None
            /\ c.match_fqdn
       ELSE SymbolOf(c.graph, n) \in c.match_symbol

\* Mutant: a span without extent is reported like any other.
Emitted_AnySpan(c, n) ==
    IF ~Accepted(c, n) \/ c.source_info[n] = None THEN <<>>
    ELSE LET span == Unwrap(c.source_info[n]).span
         IN << ResultNode(c.file_uri, span.start.line,
                          span.end.line - span.start.line,
                          span.start.column, span.end.column) >>

\* The result pushed for a child, if any.
Emitted(c, n) ==
    IF ~Accepted(c, n) \/ c.source_info[n] = None THEN <<>>
    ELSE LET span == Unwrap(c.source_info[n]).span
         IN IF span.start = span.end THEN <<>>
            ELSE << ResultNode(c.file_uri, span.start.line,
                               span.end.line - span.start.line,
                               span.start.column, span.end.column) >>

RECURSIVE EmittedAll(_, _)
EmittedAll(c, children) ==
    IF children = <<>> THEN <<>>
    ELSE Emitted(c, Head(children)) \o EmittedAll(c, Tail(children))

\* One call of Querier::traverse_node_search.
TraverseNodeSearch ==
    LET c == Unwrap(call)
        w == Unwrap(walk)
        children == ChildEdges(c.graph, Head(w.traverse_nodes))
    IN /\ Walking
       /\ c.kind = "search"
       /\ walk' = Some([Descend(w, c.graph, children) EXCEPT
                          !.results = @ \o EmittedAll(c, children)])
       /\ UNCHANGED <<callVars, evalVars, xmlVars, lockVars, slotVars>>

\* The children of the syntax type that pass the search's symbol test.
MatchedOfType(c, children, syntax_type) ==
    SelectSeq(children,
              LAMBDA n : /\ c.graph.nodes[n].symbol # None
                         /\ SearchMatchSymbol(CreateSearch(c.query), SymbolOf(c.graph, n))
                         /\ c.graph.nodes[n].syntax_type # None
                         /\ SyntaxTypeOf(c.graph, n) = syntax_type)

\* HashMap::insert of the Fqdn of each matched child, with the node the
\* loop runs on.
InsertFound(found, g, node, matched) ==
    LET keys == {get_fqdn(matched[k], g) : k \in DOMAIN matched}
    IN {entry \in found : Some(entry.fqdn) \notin keys}
         \cup {[fqdn |-> Unwrap(key), node |-> node] : key \in keys}

\* One call of ClassSymbols::traverse_node.
ClassTraverseNode ==
    LET c == Unwrap(call)
        w == Unwrap(walk)
        node == Head(w.traverse_nodes)
        children == ChildEdges(c.graph, node)
    IN /\ Walking
       /\ c.kind = "class"
       /\ walk' = Some([Descend(w, c.graph, children) EXCEPT
                          !.found = InsertFound(@, c.graph, node,
                                                MatchedOfType(c, children, "ClassDef"))])
       /\ UNCHANGED <<callVars, evalVars, xmlVars, lockVars, slotVars>>

\* One call of FieldSymbols::traverse_node.
FieldTraverseNode ==
    LET c == Unwrap(call)
        w == Unwrap(walk)
        node == Head(w.traverse_nodes)
        children == ChildEdges(c.graph, node)
    IN /\ Walking
       /\ c.kind = "field"
       /\ walk' = Some([Descend(w, c.graph, children) EXCEPT
                          !.found = InsertFound(@, c.graph, node,
                                                MatchedOfType(c, children, "FieldName"))])
       /\ UNCHANGED <<callVars, evalVars, xmlVars, lockVars, slotVars>>

\* child_edges.sort()
RECURSIVE SortHandles(_)
SortHandles(S) ==
    IF S = {} THEN <<>>
    ELSE LET least == CHOOSE x \in S : \A y \in S : x <= y
         IN <<least>> \o SortHandles(S \ {least})

\* The children the first loop took up before it returned at child n.
UpToFirst(children, n) ==
    SubSeq(children, 1, CHOOSE k \in DOMAIN children :
                            children[k] = n /\ \A j \in 1..(k - 1) : children[j] # n)

\* One call of NamespaceSymbols::traverse_node: the Fqdn of the first child
\* that matches ends the walk, the calls still pending are given up.
NamespaceTraverseStep ==
    LET c == Unwrap(call)
        w == Unwrap(walk)
        children == ChildEdges(c.graph, Head(w.traverse_nodes))
        matched == SelectSeq(children,
                             LAMBDA n : MatchedDefinition(c.graph, n, CreateSearch(c.query)))
    IN /\ Walking
       /\ c.kind = "namespace"
       /\ walk' = Some(IF matched # <<>>
                       THEN [Descend(w, c.graph, UpToFirst(children, Head(matched))) EXCEPT
                               !.traverse_nodes = <<>>,
                               !.namespace = get_fqdn(Head(matched), c.graph)]
                       ELSE Descend(w, c.graph, SortHandles(Range(children))))
       /\ UNCHANGED <<callVars, evalVars, xmlVars, lockVars, slotVars>>

MaxWalkMembers == 2

\* The graphs the indexer builds, as graphs that can hold references.
WalkGraphs == { Build(d, SourceGraph).graph : d \in NsDocuments(MaxWalkMembers) }

\* The graph with a reference X.f under the compilation unit.
WithReference(g) ==
    LET g1 == AddReference(g, File, <<"X", ".", "f">>)
    IN AddEdge(g1, 3, Len(g1.nodes), 0)

\* What the source info of a node can hold: nothing, a span without extent,
\* or a span with one.
SourceInfoKinds(every_node) ==
    IF every_node THEN <<"degenerate", "span">> ELSE <<"none", "degenerate", "span">>

SourceInfoOf(g, kinds, seed) ==
    [ n \in 1..Len(g.nodes) |->
        LET kind == kinds[((n + seed) % Len(kinds)) + 1]
            start == [line |-> n, column |-> 0]
        IN IF g.nodes[n].symbol = None \/ kind = "none" THEN None
           ELSE IF kind = "degenerate" THEN Some([span |-> [start |-> start, end |-> start]])
           ELSE Some([span |-> [start |-> start,
                                end |-> [line |-> n + (n % 2), column |-> 1]]]) ]

\* A node without source info has no syntax type.
WithSourceInfo(g, source_info) ==
    [g EXCEPT !.nodes = [n \in 1..Len(g.nodes) |->
                            IF source_info[n] = None
                            THEN [g.nodes[n] EXCEPT !.syntax_type = None]
                            ELSE g.nodes[n]]]

SymbolsOf(g) == {Unwrap(g.nodes[n].symbol) : n \in {k \in 1..Len(g.nodes) : g.nodes[k].symbol # None}}

\* A query's traversal from the compilation unit of the file.
SearchWalks ==
    { LET kinds == SourceInfoKinds(with_reference)
          g1 == IF with_reference THEN WithReference(g) ELSE g
          source_info == SourceInfoOf(g1, kinds, seed % Len(kinds))
      IN [ kind |-> "search",
           graph |-> WithSourceInfo(g1, source_info),
           source_info |-> source_info,
           nodes |-> <<3>>,
           query |-> <<"*">>,
           match_symbol |-> CASE accept = "all" -> SymbolsOf(g1)
                              [] accept = "none" -> {}
                              [] OTHER -> {<<"A">>, <<"X">>, <<"f">>},
           match_fqdn |-> with_reference /\ accept # "none",
           file_uri |-> File ] :
        g \in WalkGraphs, with_reference \in BOOLEAN, seed \in 0..2,
        accept \in {"all", "none", "some"} }

\* The construction walks of the matchers from the definition roots.
MatcherWalks ==
    { [ kind |-> kind,
        graph |-> g,
        source_info |-> SourceInfoOf(g, SourceInfoKinds(TRUE), 0),
        nodes |-> DefinitionRootNodes(g, CreateSearch(q)),
        query |-> q,
        match_symbol |-> {},
        match_fqdn |-> FALSE,
        file_uri |-> File ] :
        kind \in {"class", "field", "namespace"}, g \in WalkGraphs, q \in NsPatterns }

WalkInit ==
    /\ call \in { Some(c) : c \in SearchWalks \cup MatcherWalks }
    /\ returned = None
    /\ walk = StartWalk(Unwrap(call).nodes)
    /\ EvaluateIdle
    /\ XmlIdle
    /\ NoLocks
    /\ NoSlot

WalkNext ==
    \/ TraverseNodeSearch
    \/ ClassTraverseNode
    \/ FieldTraverseNode
    \/ NamespaceTraverseStep

SpecWalk == WalkInit /\ [][WalkNext]_vars

\* A call that can be made is made: WF_vars(WalkNext), where
\* ENABLED <<WalkNext>>_vars is Walking, a pending call always being a step
\* that changes the pending calls.
WalkFairness == []<>(~Walking) \/ []<><<WalkNext>>_vars

SpecWalkFair == SpecWalk /\ WalkFairness

\* The nodes reached from the given nodes over edges whose precedence is
\* not 10.
RECURSIVE ReachedForward(_, _, _)
ReachedForward(g, frontier, seen) ==
    LET next == {e.sink : e \in {x \in g.edges :
                                    x.source \in frontier /\ x.precedence # 10}} \ seen
    IN IF next = {} THEN seen ELSE ReachedForward(g, next, seen \cup next)

\* A precedence-10 edge that closes a cycle with the forward edges.
ClosesCycle(g, e) ==
    e.precedence = 10 /\ e.sink \in ReachedForward(g, {e.sink}, {}) \cup {e.sink}
                      /\ e.source \in ReachedForward(g, {e.sink}, {})

C23_OnlyForward ==
    walk # None =>
        LET c == Unwrap(call)
            w == Unwrap(walk)
        IN /\ \A e \in w.followed : e.precedence # 10
           /\ w.visited \subseteq
                Range(c.nodes) \cup ReachedForward(c.graph, Range(c.nodes), {})

\* C23: no forward walk follows a precedence-10 edge: the query traversal
\* and the construction walks of the matchers are called only on nodes
\* reached over edges whose precedence is not 10, and each walk comes to its
\* end, whatever cycles the precedence-10 edges close.
C23_ForwardWalksEnd == []C23_OnlyForward /\ <>WalkDone

\* A walk that has ended after it went through the source of a
\* precedence-10 edge that closes a cycle.
C23_Witness ==
    /\ WalkDone
    /\ \E e \in Unwrap(call).graph.edges :
           /\ ClosesCycle(Unwrap(call).graph, e)
           /\ e.source \in Unwrap(walk).visited

\* The nodes below the compilation unit the query's traversal starts from.
SearchReached == ReachedForward(Unwrap(call).graph, Range(Unwrap(call).nodes), {})

\* The node has source info whose span has an extent.
HasExtent(c, n) ==
    /\ c.source_info[n] # None
    /\ Unwrap(c.source_info[n]).span.start # Unwrap(c.source_info[n]).span.end

\* The result a node is reported with.
ResultOf(c, n) ==
    LET span == Unwrap(c.source_info[n]).span
    IN [ file_uri |-> c.file_uri,
         line_number |-> span.start.line,
         variables |-> [file |-> c.file_uri],
         code_location |->
           [ start_position |-> [line |-> span.start.line, character |-> span.start.column],
             end_position |-> [line |-> span.end.line, character |-> span.end.column] ] ]

\* C24: every result of the traversal is that of an accepted node whose
\* source info has a span with start different from end, with line_number
\* the span's start line, code_location the span and variables the single
\* entry file -> file_uri; an accepted node without source info or with a
\* span without extent has no result, and the walk goes on through the
\* children of every node.
C24_ResultsHaveExtent ==
    (WalkDone /\ Unwrap(call).kind = "search") =>
        LET c == Unwrap(call)
            w == Unwrap(walk)
        IN /\ \A k \in DOMAIN w.results :
                 \E n \in SearchReached :
                     Accepted(c, n) /\ HasExtent(c, n) /\ w.results[k] = ResultOf(c, n)
           /\ \A n \in SearchReached :
                 (Accepted(c, n) /\ HasExtent(c, n)) =>
                     \E k \in DOMAIN w.results : w.results[k] = ResultOf(c, n)
           /\ \A n \in SearchReached :
                 (Accepted(c, n) /\ ~HasExtent(c, n)) =>
                     \A k \in DOMAIN w.results : w.results[k].line_number # n
           /\ w.visited = Range(c.nodes) \cup SearchReached

\* An accepted node without source info ("none") or with a span without
\* extent ("degenerate") that has a child that is reported.
WithoutResultAbove(kind) ==
    /\ WalkDone
    /\ Unwrap(call).kind = "search"
    /\   \E e \in Unwrap(call).graph.edges :
           /\ e.precedence # 10
           /\ e.source \in SearchReached
           /\ Accepted(Unwrap(call), e.source)
           /\ IF kind = "none" THEN Unwrap(call).source_info[e.source] = None
              ELSE /\ Unwrap(call).source_info[e.source] # None
                   /\ ~HasExtent(Unwrap(call), e.source)
           /\ HasExtent(Unwrap(call), e.sink)
           /\ \E k \in DOMAIN Unwrap(walk).results :
                  Unwrap(walk).results[k] = ResultOf(Unwrap(call), e.sink)

\* The walk went on below an accepted node that has no result.
C24_Witness == WithoutResultAbove("none") \/ WithoutResultAbove("degenerate")

\* ------------------------------------------------------------------------
\* NamespaceSymbols::new and the order of the edges
\* ------------------------------------------------------------------------
\* The edges of a node are enumerated in ascending order of their sink's
\* handle, and the handles follow the order in which the entries of the file
\* are met: the same entries in another order give the same nodes and edges,
\* enumerated in another order.
MaxOrderMembers == 3

OrderEvents ==
    { MemberEvent(Some(<<"T", ":", "A", ".", "X">>)),
      MemberEvent(Some(<<"T", ":", "A", ".", "Y">>)),
      MemberEvent(Some(<<"T", ":", "B", ".", "Y">>)),
      MemberEvent(Some(<<"F", ":", "A", ".", "X", ".", "f">>)),
      MemberEvent(Some(<<"M", ":", "A", ".", "Y", ".", "a", "m">>)) }

OrderDocuments ==
    UNION { [1..n -> OrderEvents] : n \in 0..MaxOrderMembers }

OrderPatterns ==
    { <<"A", ".", "*">>, <<"B", ".", "*">>, <<"A", ".", "X">>, <<"A", ".", "f">>,
      <<"A", ".", "m", "*">> }

\* NamespaceSymbols::new on the graph of a document, from the roots the
\* query finds in it.
NamespaceOfDocument(document, query) ==
    LET graph == Build(document, NewStackGraph).graph
        search == CreateSearch(query)
    IN NamespaceSymbolsNew(graph, DefinitionRootNodes(graph, search), search)

CallNamespaceOfDocument ==
    /\ returned = None
    /\ returned' = Return("NamespaceSymbols::new of document",
                          NamespaceOfDocument(Unwrap(call).document, Unwrap(call).query))
    /\ UNCHANGED <<call, evalVars, xmlVars, lockVars, slotVars, walkVars>>

OrderInit ==
    /\ call \in { Some([document |-> d, query |-> q]) :
                    d \in OrderDocuments, q \in OrderPatterns }
    /\ returned = None
    /\ EvaluateIdle
    /\ XmlIdle
    /\ NoLocks
    /\ NoSlot
    /\ NoWalk

OrderNext == CallNamespaceOfDocument

SpecOrder == OrderInit /\ [][OrderNext]_vars

\* The documents that hold the same entries in another order.
Reorderings(document) ==
    { [k \in DOMAIN document |-> document[p[k]]] :
        p \in { q \in [DOMAIN document -> DOMAIN document] :
                  \A i, j \in DOMAIN document : i # j => q[i] # q[j] } }

MaxSpine == 3

\* The syntax types of the nodes of a spine: the four hierarchical kinds
\* and one that is none of them.
SpineTypes == Hierarchical \cup {"Name"}

SpineSymbols == << <<"a">>, <<"b">>, <<"c">>, <<"d">>, <<"f">> >>

\* The graph of a spine: node k of the spine is node k + 2 of the graph and
\* has a precedence-10 edge to the next node of the spine, the last node of
\* the spine having none.
RECURSIVE SpineGraph(_, _)
SpineGraph(types, k) ==
    IF k = 0 THEN NewStackGraph
    ELSE LET g == AddNode(SpineGraph(types, k - 1), File, SpineSymbols[k], types[k])
         IN IF k = 1 THEN g ELSE AddEdge(g, k + 1, k + 2, 10)

CallGetFqdn ==
    /\ returned = None
    /\ returned' = Return("get_fqdn", get_fqdn(Unwrap(call).node, Unwrap(call).graph))
    /\ UNCHANGED <<call, evalVars, xmlVars, lockVars, slotVars, walkVars>>

SpineInit ==
    /\ call \in { Some([types |-> types, graph |-> SpineGraph(types, Len(types)), node |-> 3]) :
                    types \in UNION { [1..n -> SpineTypes] : n \in 1..MaxSpine } }
    /\ returned = None
    /\ EvaluateIdle
    /\ XmlIdle
    /\ NoLocks
    /\ NoSlot
    /\ NoWalk

SpineNext == CallGetFqdn

SpecSpine == SpineInit /\ [][SpineNext]_vars

\* The fields the hierarchical nodes of the spine contribute, from its last
\* node down to its first.
RECURSIVE Contributions(_, _)
Contributions(types, k) ==
    IF k > Len(types) THEN EmptyFqdn
    ELSE LET above == Contributions(types, k + 1)
         IN IF types[k] \in Hierarchical
            THEN AppendSymbol(above, types[k], SpineSymbols[k])
            ELSE above

\* C26: a node that is none of namespace, class, method and field yields
\* None when it is the terminal node of the spine; in the middle of the spine
\* it contributes nothing, and the reconstruction of the node below keeps the
\* fields of the hierarchical nodes below and above it.
C26_NonHierarchicalOnSpine ==
    Returned("get_fqdn") =>
        LET types == Unwrap(call).types
            n == Len(types)
        IN /\ (n = 1 /\ types[1] \notin Hierarchical) => Unwrap(returned).value = None
           /\ (types[1] \in Hierarchical /\ types[n] \in Hierarchical) =>
                  Unwrap(returned).value = Some(Contributions(types, 1))

\* ------------------------------------------------------------------------
\* init and evaluate on one provider: provider/csharp.rs,
\* provider/dependency_resolution.rs
\* ------------------------------------------------------------------------
\* One init call and the evaluate calls that run beside it. The init call
\* goes through these positions:
\*   "get_tools"          config stored, Project::get_tools(..)
\*   "lock_project"       awaiting project_lock.lock() to store the project
\*   "store_project"      holding the guard: replace, then drop(project_guard)
\*   "relock_project"     awaiting project_lock.lock() a second time
\*   "validate"           project.validate_language_configuration()
\*   "get_project_graph"  project.get_project_graph()
\*   "resolve"            project.resolve()
\*   "spawn"              load_to_database: the indexing tasks are spawned
\*   "join"               load_to_database: set.join_all()
\*   "lock_graph"         load_to_database: self.graph.lock().expect(..)
\*   "read_store"         load_to_database: the store is read into the slot
\*   "return"             load_to_database returned; init builds its response
\*   "done"               returned
\*   "panicked"           unwound by a panic
\* What each fallible step of the init call does is drawn with the call:
\* failing names the step that fails (or "none"), tasks holds the results of
\* the indexing tasks in the order join_all yields them, and sdk tells whether
\* a target framework is set, its SDK path exists, and its graphs can be read.
InitTask == "init"

EvaluateTasks == {"evaluate_a", "evaluate_b"}

MaxTasks == 2

InitSteps == {"get_tools", "validate", "get_project_graph", "resolve"}

LoadSteps == {"spawn", "open", "load_graphs", "load_into"}

SdkOutcomes == {"unset", "absent", "loaded", "failed"}

TaskResults ==
    UNION { [1..n -> BOOLEAN] : n \in 0..MaxTasks }

InitOutcomes ==
    { [failing |-> f, tasks |-> t, sdk |-> k] :
        f \in InitSteps \cup LoadSteps \cup {"none"}, t \in TaskResults, k \in SdkOutcomes }

Outcome == Unwrap(call)

InitAt(step) == pc[InitTask] = step

\* Project::new(..): no source type and an empty graph slot yet.
NewProject == [source_type |-> None]

\* Err(Status) returned by init: the guards it holds are dropped.
InitFails(code, message) ==
    /\ returned' = Return("init", RpcErr(code, message))
    /\ pc' = [pc EXCEPT ![InitTask] = "done"]
    /\ project_lock' = IF project_lock = Some(InitTask) THEN None ELSE project_lock

\* Project::get_tools(..)?, then Project::new(..).
InitGetTools ==
    /\ InitAt("get_tools")
    /\ IF Outcome.failing = "get_tools"
       THEN InitFails("invalid_argument", "unalble to find tools")
       ELSE /\ pc' = [pc EXCEPT ![InitTask] = "lock_project"]
            /\ UNCHANGED <<returned, project_lock>>
    /\ UNCHANGED <<call, graph_lock, evalVars, xmlVars, slotVars, walkVars>>

\* let mut project_guard = project_lock.lock().await
InitLockProject ==
    /\ InitAt("lock_project")
    /\ project_lock = None
    /\ project_lock' = Some(InitTask)
    /\ pc' = [pc EXCEPT ![InitTask] = "store_project"]
    /\ UNCHANGED <<graph_lock, evalVars, xmlVars, callVars, slotVars, walkVars>>

\* project_guard.replace(project.clone()); drop(project_guard);
\* drop(config_guard). The new project brings its own, empty graph slot.
InitStoreProject ==
    /\ InitAt("store_project")
    /\ project' = Some(NewProject)
    /\ graph_slot' = None
    /\ graph_poisoned' = FALSE
    /\ project_lock' = None
    /\ pc' = [pc EXCEPT ![InitTask] = "relock_project"]
    /\ UNCHANGED <<request, query_result, best_by_location, response, graph_lock,
                   xmlVars, callVars, walkVars>>

\* let project_guard = project_lock.lock().await, held until init returns.
InitRelockProject ==
    /\ InitAt("relock_project")
    /\ project_lock = None
    /\ project_lock' = Some(InitTask)
    /\ pc' = [pc EXCEPT ![InitTask] = "validate"]
    /\ UNCHANGED <<graph_lock, evalVars, xmlVars, callVars, slotVars, walkVars>>

\* project.validate_language_configuration(): sets the source type.
InitValidate ==
    /\ InitAt("validate")
    /\ IF Outcome.failing = "validate"
       THEN /\ InitFails("internal", "unable to create language configuration for project")
            /\ UNCHANGED project
       ELSE /\ project' = Some([Unwrap(project) EXCEPT !.source_type = Some("Source")])
            /\ pc' = [pc EXCEPT ![InitTask] = "get_project_graph"]
            /\ UNCHANGED <<returned, project_lock>>
    /\ UNCHANGED <<request, query_result, best_by_location, response, call, graph_lock,
                   xmlVars, slotVars, walkVars>>

\* project.get_project_graph().await.map_err(..)?
InitGetProjectGraph ==
    /\ InitAt("get_project_graph")
    /\ IF Outcome.failing = "get_project_graph"
       THEN InitFails("internal", "failed")
       ELSE /\ pc' = [pc EXCEPT ![InitTask] = "resolve"]
            /\ UNCHANGED <<returned, project_lock>>
    /\ UNCHANGED <<call, graph_lock, evalVars, xmlVars, slotVars, walkVars>>

\* project.resolve().await
InitResolve ==
    /\ InitAt("resolve")
    /\ IF Outcome.failing = "resolve"
       THEN InitFails("internal", "unable to resolve dependenies")
       ELSE /\ pc' = [pc EXCEPT ![InitTask] = "spawn"]
            /\ UNCHANGED <<returned, project_lock>>
    /\ UNCHANGED <<call, graph_lock, evalVars, xmlVars, slotVars, walkVars>>

\* load_to_database returns to init, which goes on to build its response.
LoadReturns(result) ==
    /\ returned' = Return("load_to_database", result)
    /\ pc' = [pc EXCEPT ![InitTask] = "return"]

LoadOk == [ok |-> TRUE, err |-> None]

LoadErr(message) == [ok |-> FALSE, err |-> Some(message)]

\* load_to_database_full_analysis().await? or load_to_database_source_only().await?
LoadSpawn ==
    /\ InitAt("spawn")
    /\ IF Outcome.failing = "spawn"
       THEN LoadReturns(LoadErr("spawn"))
       ELSE /\ pc' = [pc EXCEPT ![InitTask] = "join"]
            /\ UNCHANGED returned
    /\ UNCHANGED <<call, project_lock, graph_lock, evalVars, xmlVars, slotVars, walkVars>>

\* for res in set.join_all().await: the first Err returns.
LoadJoin ==
    /\ InitAt("join")
    /\ IF \E i \in DOMAIN Outcome.tasks : ~Outcome.tasks[i]
       THEN LoadReturns(LoadErr("unable to get graph, project may not have been initialized"))
       ELSE /\ pc' = [pc EXCEPT ![InitTask] = "lock_graph"]
            /\ UNCHANGED returned
    /\ UNCHANGED <<call, project_lock, graph_lock, evalVars, xmlVars, slotVars, walkVars>>

\* self.graph.lock().expect("project may not have been initialized"): a
\* poisoned mutex panics the init call, which drops its project guard.
LoadLockGraph ==
    /\ InitAt("lock_graph")
    /\ graph_lock = None
    /\ IF graph_poisoned
       THEN /\ pc' = [pc EXCEPT ![InitTask] = "panicked"]
            /\ project_lock' = None
            /\ UNCHANGED graph_lock
       ELSE /\ pc' = [pc EXCEPT ![InitTask] = "read_store"]
            /\ graph_lock' = Some(InitTask)
            /\ UNCHANGED project_lock
    /\ UNCHANGED <<evalVars, xmlVars, callVars, slotVars, walkVars>>

\* Mutant: the slot is written before the store is read.
ReadStore_InsertFirst(o) ==
    [result |-> IF o.failing \in {"open", "load_graphs", "load_into"}
                THEN LoadErr(o.failing) ELSE LoadOk,
     slot |-> Some({"project"})]

\* From SQLiteReader::open to graph_guard.insert(new_graph): what
\* load_to_database returns, and what it leaves in the slot. A failure to read
\* the SDK graphs is logged and the load goes on without them.
ReadStore(o) ==
    IF o.failing \in {"open", "load_graphs", "load_into"}
    THEN [result |-> LoadErr(o.failing), slot |-> graph_slot]
    ELSE [result |-> LoadOk,
          slot |-> Some(IF o.sdk = "loaded" THEN {"project", "sdk"} ELSE {"project"})]

\* The rest of load_to_database, run with the graph guard held.
LoadReadStore ==
    /\ InitAt("read_store")
    /\ graph_slot' = ReadStore(Outcome).slot
    /\ LoadReturns(ReadStore(Outcome).result)
    /\ graph_lock' = None
    /\ UNCHANGED <<call, project_lock, graph_poisoned, evalVars, xmlVars, walkVars>>

\* The result of load_to_database is logged; init returns successful = true.
InitReturn ==
    /\ InitAt("return")
    /\ returned' = Return("init", RpcOk("", TRUE, None))
    /\ pc' = [pc EXCEPT ![InitTask] = "done"]
    /\ project_lock' = None
    /\ UNCHANGED <<call, graph_lock, evalVars, xmlVars, slotVars, walkVars>>

\* query.query(pattern) panics: the graph guard is dropped while the call
\* unwinds, which poisons the mutex.
QueryPanics(c) ==
    /\ pc[c] = "query"
    /\ graph_lock' = None
    /\ graph_poisoned' = TRUE
    /\ pc' = [pc EXCEPT ![c] = "panicked"]
    /\ UNCHANGED <<graph_slot, project_lock, evalVars, xmlVars, callVars, walkVars>>

\* The steps after which the outcome of the later steps is never looked at.
Relevant(o) ==
    /\ o.failing \in InitSteps => o.tasks = <<>> /\ o.sdk = "unset"
    /\ o.failing = "spawn" => o.tasks = <<>> /\ o.sdk = "unset"
    /\ (\E i \in DOMAIN o.tasks : ~o.tasks[i]) => o.failing = "none" /\ o.sdk = "unset"

ProviderInit ==
    /\ project = None
    /\ request = None
    /\ query_result = NotRun
    /\ best_by_location = EmptyMap
    /\ response = None
    /\ call \in { Some(o) : o \in { x \in InitOutcomes : Relevant(x) } }
    /\ returned = None
    /\ pc = [t \in {InitTask} \cup EvaluateTasks |->
                IF t = InitTask THEN "get_tools" ELSE "lock_project"]
    /\ project_lock = None
    /\ graph_lock = None
    /\ NoSlot
    /\ XmlIdle
    /\ NoWalk

ProviderNext ==
    \/ InitGetTools
    \/ InitLockProject
    \/ InitStoreProject
    \/ InitRelockProject
    \/ InitValidate
    \/ InitGetProjectGraph
    \/ InitResolve
    \/ LoadSpawn
    \/ LoadJoin
    \/ LoadLockGraph
    \/ LoadReadStore
    \/ InitReturn
    \/ \E c \in EvaluateTasks :
        \/ LockProject(c)
        \/ ReadProject(c)
        \/ LockGraph(c)
        \/ RunQuery(c)
        \/ QueryPanics(c)
        \/ Respond(c)

SpecProvider == ProviderInit /\ [][ProviderNext]_vars

\* C27: an evaluate call that finds the graph mutex poisoned clears the
\* poison and goes on to its query with the graph stored in the slot, so that
\* the calls after it find the mutex unpoisoned.
C27_PoisonCleared ==
    [][\A c \in EvaluateTasks :
          (graph_poisoned /\ pc[c] = "lock_graph" /\ pc'[c] # "lock_graph") =>
              /\ ~graph_poisoned'
              /\ pc'[c] = "query"
              /\ IsSome(graph_slot)
              /\ graph_slot' = graph_slot]_vars

\* Whether every indexing task of the init call returned Ok.
TasksSucceeded == \A i \in DOMAIN Outcome.tasks : Outcome.tasks[i]

\* What load_to_database returned to init.
LoadResult == Unwrap(returned).value

\* C28: load_to_database writes the graph slot only after every indexing
\* task has been joined and all of them succeeded. When spawning the tasks or
\* a task fails, or opening the store, reading the project's graphs from it
\* or loading them into the new graph fails, it returns an error and the slot
\* keeps the value it had; a failure to read the SDK graphs does neither.
C28_SlotWrittenAfterSuccess ==
    /\ IsSome(graph_slot) =>
           /\ pc[InitTask] \in {"return", "done"}
           /\ TasksSucceeded
           /\ Outcome.failing = "none"
    /\ Returned("load_to_database") =>
           /\ LoadResult.ok <=> (TasksSucceeded /\ Outcome.failing \notin LoadSteps)
           /\ ~LoadResult.ok => graph_slot = None
           /\ LoadResult.ok => IsSome(graph_slot)

\* C28 as stated: every failure to read the store, that of the SDK graphs
\* included, makes load_to_database return an error and leave the slot alone.
C28_AnyReadFailureStops ==
    Returned("load_to_database") =>
        ((~TasksSucceeded \/ Outcome.failing \in LoadSteps \/ Outcome.sdk = "failed") =>
            /\ ~LoadResult.ok
            /\ graph_slot = None)

\* load_to_database has joined its tasks, failed to read the project's graphs
\* and returned.
C28_Witness ==
    /\ Returned("load_to_database")
    /\ Outcome.tasks # <<>>
    /\ Outcome.failing = "load_graphs"
    /\ ~LoadResult.ok
    /\ graph_slot = None

\* C29: once init has returned successful = true the graph slot of the
\* project holds a graph, so that a later evaluate call finds one to query;
\* an init call whose load_to_database failed does not report success.
C29_SuccessMeansGraph ==
    (Returned("init") /\ Unwrap(returned).value.successful) =>
        /\ IsSome(graph_slot)
        /\ TasksSucceeded
        /\ Outcome.failing \notin LoadSteps

\* The positions of init from the store of the project to its return.
StoredNotReturned ==
    {"relock_project", "validate", "get_project_graph", "resolve", "spawn", "join",
     "lock_graph", "read_store", "return"}

\* C30: from the moment init has stored the project until init returns no
\* evaluate call acquires the project lock, so none obtains the new project
\* before its graph is loaded.
C30_NoEvaluateDuringInit ==
    pc[InitTask] \in StoredNotReturned =>
        \A c \in EvaluateTasks :
            /\ project_lock # Some(c)
            /\ pc[c] \notin {"lock_graph", "query", "respond", "panicked"}

====
